---- MODULE Spec2Model ----
(***************************************************************************)
(* Analytics behaviour of the IoT temperature watch application.           *)
(*                                                                         *)
(* Temperatures of the latest-temperature client are integers in           *)
(* hundredths of a degree Celsius (5.00 C = 500).  Readings of the reading *)
(* log are whole degrees.  A JavaScript value that may be undefined or     *)
(* null is a sequence of length at most one: <<>> is undefined/null and    *)
(* <<v>> is the value v.                                                   *)
(***************************************************************************)
EXTENDS Integers, Sequences, FiniteSets, TLC

(***************************************************************************)
(* Bounds                                                                  *)
(***************************************************************************)
\* temperatures of the latest-temperature client range over
\* 5.00 C +/- TempSpan hundredths, and over 0.00 C +/- ZeroSpan hundredths
TempSpan == 12
ZeroSpan == 2
\* the weather API reports one of MaxTime timestamps
MaxTime == 2
\* calendar days 1 .. MaxDay, a log of at most MaxLog readings, a trailing
\* window of WindowDays days
MaxDay == 3
MaxLog == 3
WindowDays == 2
\* at most MaxInFlight requests of one component are in flight
MaxInFlight == 1
\* anomaly detection: the analysis window is the last AnalysisDays days, the
\* baseline the LookbackDays days before it; thresholds 1/2 .. MaxThreshold/2
AnalysisDays == 1
LookbackDays == 2
MaxThreshold == 8
\* the predictor reads the readings of the last PredictWindow days
PredictWindow == 2
\* the device registry holds at most MaxSensors sensors
MaxSensors == 2
\* the box plot covers the last BoxplotDays days
BoxplotDays == 2
\* the store seen at the grain of its lock holds at most MaxStored readings
MaxStored == 2
\* ClothingSuggestion is given temperatures from BeyondRanges tenths of a
\* degree below 0 C to BeyondRanges tenths above 30 C
BeyondRanges == 20
\* the backend reports latitudes and longitudes 0 .. MaxCoordinate
MaxCoordinate == 2
\* a page starts at most MaxRequests requests of one kind
MaxRequests == 2
\* the CORS test page runs at most MaxTests tests
MaxTests == 3
\* a retrying component sends at most MaxAttempts requests
MaxAttempts == 4
\* the weather page starts at most MaxWeatherRequests requests
MaxWeatherRequests == 3
\* the history client is called at the hours 0 .. MaxClock, on hourly
\* series of at most MaxSeries entries that start at hour 0 .. MaxFirst
MaxClock == 30
MaxFirst == 1
MaxSeries == 24

(***************************************************************************)
(* Constants of the program                                                *)
(***************************************************************************)
\* fetchTemperatureHistory: Date.now() - 10 * 60 * 60 * 1000, in hours, and
\* the length of slice(startIndex, startIndex + 10)
HistoryHours == 10
SliceLength == 10

Temps == ((500 - TempSpan) .. (500 + TempSpan)) \cup ((0 - ZeroSpan) .. ZeroSpan)
Times == 1 .. MaxTime

None == <<>>
Some(x) == <<x>>

VARIABLES
    previousTemperature,  \* window.previousTemperature
    latestCall,           \* the last invocation of fetchLatestTemperature
    log,                  \* the reading log
    now,                  \* the current calendar day
    mounted,              \* the component on the page
    ws,                   \* state of WeeklyStats
    en,                   \* state of WeeklyStatsEnhanced
    sb,                   \* state of TemperatureStatsBox
    detection,            \* what the last operation returned, if it was get_anomalies
    tp,                   \* state of TemperaturePrediction
    registry,             \* the device registry: the DeviceStatus of each sensor
    dash,                 \* state of AiIotDashboard
    bp,                   \* state of BoxPlotStats
    st,                   \* the Reading Store of one location: slots and lock
    appendCall,           \* the last call of append on the store and its outcome
    query,                \* the query on the store and its result
    cs,                   \* ClothingSuggestion: its prop and what it computed
    tm,                   \* state of TemperatureMap
    backendUp,            \* the backend answers every request successfully
    content,              \* state of Content and its requests in flight
    hist,                 \* the last call of fetchTemperatureHistory
    wd,                   \* state of WeatherDashboard and its requests in flight
    lc,                   \* a component with a delayed start and a retry: its life
    ct,                   \* state of CorsTest and its requests in flight
    ai                    \* AiIotDashboard at the grain of its four requests

vars == <<previousTemperature, latestCall, log, now, mounted, ws, en, sb, detection,
          tp, registry, dash, bp, st, appendCall, query, cs, tm, backendUp,
          content, hist, wd, lc, ct, ai>>

trendVars == <<previousTemperature, latestCall>>

weeklyVars == <<log, now, mounted, ws, en, sb>>

coreVars == <<trendVars, weeklyVars, detection>>

predictVars == <<tp>>

healthVars == <<registry, dash>>

boxVars == <<bp>>

storeVars == <<st, appendCall, query>>

\* the state of the panels that stand beside the weekly statistics views,
\* and of the store seen at the grain of its lock
mapVars == <<tm, backendUp>>

\* the state of the pages: the dashboard page, the history client, the
\* weather page, the life of a retrying component and the CORS test page
pageVars == <<content, hist, wd, lc, ct, ai>>

analyticsVars == <<predictVars, healthVars, boxVars, storeVars, cs, mapVars>>

panelVars == <<analyticsVars, pageVars>>

\* what the actions of one panel leave alone
notPredictVars == <<coreVars, healthVars, boxVars, storeVars, cs, mapVars, pageVars>>
notHealthVars == <<coreVars, predictVars, boxVars, storeVars, cs, mapVars, pageVars>>
notBoxVars == <<coreVars, predictVars, healthVars, storeVars, cs, mapVars, pageVars>>
notStoreVars == <<coreVars, predictVars, healthVars, boxVars, cs, mapVars, pageVars>>
notClothingVars == <<coreVars, predictVars, healthVars, boxVars, storeVars, mapVars, pageVars>>
notMapVars == <<coreVars, predictVars, healthVars, boxVars, storeVars, cs, pageVars>>
notContentVars == <<coreVars, analyticsVars, hist, wd, lc, ct, ai>>
notHistoryVars == <<coreVars, analyticsVars, content, wd, lc, ct, ai>>
notWeatherVars == <<coreVars, analyticsVars, content, hist, lc, ct, ai>>
notLifeVars == <<coreVars, analyticsVars, content, hist, wd, ct, ai>>
notCorsVars == <<coreVars, analyticsVars, content, hist, wd, lc, ai>>
notRefreshVars == <<coreVars, analyticsVars, content, hist, wd, lc, ct>>

(***************************************************************************)
(* fetchLatestTemperature, Open-Meteo variant                              *)
(***************************************************************************)
\* window.previousTemperature || temperature : undefined and 0 are falsy
LatestTemperatureNoFallback(prev, temperature) ==
    IF prev = None THEN 0 ELSE prev[1]

LatestTemperatureOf(prev, temperature) ==
    IF prev = None \/ prev = Some(0) THEN temperature ELSE prev[1]

TrendSwapped(temperature, latestTemperature) ==
    IF temperature > latestTemperature THEN "down"
    ELSE IF temperature < latestTemperature THEN "up"
    ELSE "stable"

ComputeTrend(temperature, latestTemperature) ==
    IF temperature > latestTemperature THEN "up"
    ELSE IF temperature < latestTemperature THEN "down"
    ELSE "stable"

\* the value returned by a call that reads the weather (time, temperature)
\* while window.previousTemperature is prev
LatestResult(prev, time, temperature) ==
    [time |-> time,
     temperature |-> temperature,
     trend |-> ComputeTrend(temperature, LatestTemperatureOf(prev, temperature))]

\* the request succeeds and the response carries current_weather
fetchLatestTemperatureOk(time, temperature) ==
    /\ latestCall' = [outcome |-> "returned",
                      prev |-> previousTemperature,
                      result |-> Some(LatestResult(previousTemperature, time, temperature))]
    /\ previousTemperature' = Some(temperature)
    /\ UNCHANGED <<weeklyVars, detection, panelVars>>

\* the request fails, the response is not ok or current_weather is missing:
\* the error is logged and rethrown before window.previousTemperature is read
fetchLatestTemperatureThrow ==
    /\ latestCall' = [outcome |-> "threw",
                      prev |-> previousTemperature,
                      result |-> None]
    /\ UNCHANGED <<previousTemperature, weeklyVars, detection, panelVars>>

TrendInit ==
    /\ previousTemperature = None
    /\ latestCall = [outcome |-> "none", prev |-> None, result |-> None]

TrendNext ==
    \/ \E time \in Times, temperature \in Temps :
           fetchLatestTemperatureOk(time, temperature)
    \/ fetchLatestTemperatureThrow

(***************************************************************************)
(* Reading Store and Aggregator (backend behind /api/weekly-stats)         *)
(***************************************************************************)
\* a reading is [day |-> calendar day, temp |-> whole degrees]; the log is
\* append-only and ordered by day
ReadingTemps == {10, 14, 20}
Days == 1 .. MaxDay

\* exact rational numbers, kept in lowest terms with a positive denominator
RECURSIVE GCD(_, _)
GCD(a, b) == IF b = 0 THEN a ELSE GCD(b, a % b)

Frac(n, d) ==
    LET g == GCD(IF n < 0 THEN 0 - n ELSE n, d)
    IN  [num |-> n \div g, den |-> d \div g]

FracLeq(a, b) == a.num * b.den <= b.num * a.den

RECURSIVE SeqSum(_)
SeqSum(s) == IF s = <<>> THEN 0 ELSE Head(s) + SeqSum(Tail(s))

RECURSIVE SeqMin(_)
SeqMin(s) ==
    IF Len(s) = 1 THEN s[1]
    ELSE LET m == SeqMin(Tail(s)) IN IF s[1] < m THEN s[1] ELSE m

RECURSIVE SeqMax(_)
SeqMax(s) ==
    IF Len(s) = 1 THEN s[1]
    ELSE LET m == SeqMax(Tail(s)) IN IF s[1] > m THEN s[1] ELSE m

TempsOf(readings) == [i \in 1 .. Len(readings) |-> readings[i].temp]

Squares(s) == [i \in 1 .. Len(s) |-> s[i] * s[i]]

\* population variance (divide by count), the square of the standard deviation
PopulationVariance(s) ==
    Frac(Len(s) * SeqSum(Squares(s)) - SeqSum(s) * SeqSum(s), Len(s) * Len(s))

InWindow(d, today) == d > today - WindowDays /\ d <= today

ReadingsOn(lg, d) == SelectSeq(lg, LAMBDA r : r.day = d)

ReadingsInWindow(lg, today) == SelectSeq(lg, LAMBDA r : InWindow(r.day, today))

DailyAggregate(lg, d) ==
    LET ts == TempsOf(ReadingsOn(lg, d))
    IN  [date |-> d,
         min |-> SeqMin(ts),
         max |-> SeqMax(ts),
         avg |-> Frac(SeqSum(ts), Len(ts)),
         variance |-> PopulationVariance(ts),
         reading_count |-> Len(ts)]

\* the aggregates of the days d .. today, in date order; a day without
\* readings has no aggregate
RECURSIVE AggregatesFrom(_, _, _)
AggregatesFrom(lg, d, today) ==
    IF d > today THEN <<>>
    ELSE IF d < 1 \/ ReadingsOn(lg, d) = <<>> THEN AggregatesFrom(lg, d + 1, today)
    ELSE <<DailyAggregate(lg, d)>> \o AggregatesFrom(lg, d + 1, today)

DailyAggregates(lg, today) == AggregatesFrom(lg, today - WindowDays + 1, today)

Column(aggs, f) == [i \in 1 .. Len(aggs) |-> aggs[i][f]]

\* sum over the days of avg_d * reading_count_d (an integer, because avg_d is
\* the day's sum over the day's count)
WeightedSum(aggs) ==
    SeqSum([i \in 1 .. Len(aggs) |->
                (aggs[i].avg.num * aggs[i].reading_count) \div aggs[i].avg.den])

RECURSIVE SeqProd(_)
SeqProd(s) == IF s = <<>> THEN 1 ELSE Head(s) * SeqProd(Tail(s))

\* plain mean of the per-day averages, not weighted by the reading counts
MeanOfDailyAverages(aggs) ==
    LET common == SeqProd([i \in 1 .. Len(aggs) |-> aggs[i].avg.den])
    IN  Frac(SeqSum([i \in 1 .. Len(aggs) |->
                        aggs[i].avg.num * (common \div aggs[i].avg.den)]),
             common * Len(aggs))

\* weekly average from the per-day aggregates: count-weighted mean
OverallAvg(aggs) ==
    Frac(WeightedSum(aggs), SeqSum(Column(aggs, "reading_count")))

\* weekly summary, computed from the per-day aggregates only
OverallStats(aggs) ==
    [overall_min |-> SeqMin(Column(aggs, "min")),
     overall_max |-> SeqMax(Column(aggs, "max")),
     overall_avg |-> OverallAvg(aggs),
     total_readings |-> SeqSum(Column(aggs, "reading_count"))]

\* body of GET /api/weekly-stats in the shape WeeklyStats reads; a window
\* without readings gives the explicit no-data result: empty per-day lists
\* and no weekly_avg and temp_std_dev
WeeklyStatsPayload(lg, today) ==
    LET aggs == DailyAggregates(lg, today)
    IN  [days |-> Some(Column(aggs, "date")),
         min_temps |-> Some(Column(aggs, "min")),
         max_temps |-> Some(Column(aggs, "max")),
         avg_temps |-> Some(Column(aggs, "avg")),
         weekly_avg |-> IF aggs = <<>> THEN None ELSE Some(OverallAvg(aggs)),
         temp_std_dev |-> IF aggs = <<>> THEN None
                          ELSE Some(PopulationVariance(TempsOf(ReadingsInWindow(lg, today)))),
         total_readings |-> SeqSum(Column(aggs, "reading_count"))]

\* body of GET /api/weekly-stats in the shape WeeklyStatsEnhanced and
\* TemperatureStatsBox read
EnhancedPayload(lg, today) ==
    LET aggs == DailyAggregates(lg, today)
    IN  [success |-> TRUE,
         dates |-> Column(aggs, "date"),
         minTemps |-> Column(aggs, "min"),
         maxTemps |-> Column(aggs, "max"),
         avgTemps |-> Column(aggs, "avg"),
         overallStats |-> IF aggs = <<>> THEN None ELSE Some(OverallStats(aggs))]

\* a 200 response whose body has none of the expected fields
IncompletePayload ==
    [days |-> None, min_temps |-> None, max_temps |-> None, avg_temps |-> None,
     weekly_avg |-> None, temp_std_dev |-> None, total_readings |-> 0]

\* a response whose body reports an error
ErrorPayload == [success |-> FALSE, error |-> "error"]

\* no anomaly detection result at hand
NoDetection == [threshold |-> 1, result |-> None]

\* what a settled request delivered
PayloadKind(days) == IF days = <<>> THEN "nodata" ELSE "data"

(***************************************************************************)
(* Reading Store: append and the passing of days                           *)
(***************************************************************************)
\* a reading taken now is appended; it is visible to every later query
append(temp) ==
    /\ Len(log) < MaxLog
    /\ log' = Append(log, [day |-> now, temp |-> temp])
    /\ detection' = NoDetection
    /\ UNCHANGED <<now, mounted, ws, en, sb, trendVars, panelVars>>

\* midnight passes
AdvanceDay ==
    /\ now < MaxDay
    /\ now' = now + 1
    /\ detection' = NoDetection
    /\ UNCHANGED <<log, mounted, ws, en, sb, trendVars, panelVars>>

(***************************************************************************)
(* WeeklyStats                                                             *)
(***************************************************************************)
\* !data.days || !data.avg_temps || !data.min_temps || !data.max_temps,
\* with an empty array taken for a missing one
IsIncompleteOrEmpty(data) ==
    \/ data.days = None \/ data.avg_temps = None
    \/ data.min_temps = None \/ data.max_temps = None
    \/ data.days = Some(<<>>)

\* !data.days || !data.avg_temps || !data.min_temps || !data.max_temps
\* (an empty array is truthy)
IsIncomplete(data) ==
    \/ data.days = None \/ data.avg_temps = None
    \/ data.min_temps = None \/ data.max_temps = None

\* chart whose day axis lists every day of the log, with or without readings
ChartDataAllDays(data) ==
    [labels |-> [i \in 1 .. MaxDay |-> i],
     avg |-> data.avg_temps[1],
     min |-> data.min_temps[1],
     max |-> data.max_temps[1]]

\* setChartData: labels and the three datasets
ChartDataOf(data) ==
    [labels |-> data.days[1],
     avg |-> data.avg_temps[1],
     min |-> data.min_temps[1],
     max |-> data.max_temps[1]]

\* getWeeklyStats up to the await: setLoading(true), request sent
wsGetWeeklyStats ==
    /\ mounted = "WeeklyStats"
    /\ ws.inFlight < MaxInFlight
    /\ ws' = [ws EXCEPT !.loading = TRUE, !.inFlight = @ + 1]
    /\ UNCHANGED <<log, now, mounted, en, sb, trendVars, detection, panelVars>>

\* fetchWeeklyStats resolved with the body data; last and asOf record what
\* was delivered and from which log
wsResolved(data) ==
    /\ mounted = "WeeklyStats"
    /\ ws.inFlight > 0
    /\ LET handled ==
               IF IsIncomplete(data)
               THEN [ws EXCEPT !.error = Some("Incomplete data received from server")]
               ELSE [ws EXCEPT !.weeklyStats = Some(data),
                               !.chartData = ChartDataOf(data),
                               !.error = None]
       IN  ws' = [handled EXCEPT !.loading = FALSE,
                                 !.inFlight = @ - 1,
                                 !.last = IF data.days = None THEN "incomplete"
                                          ELSE PayloadKind(data.days[1]),
                                 !.asOf = IF data.days = None THEN @
                                          ELSE [log |-> log, today |-> now]]
    /\ UNCHANGED <<log, now, mounted, en, sb, trendVars, detection, panelVars>>

\* fetchWeeklyStats threw: network error or non-OK response
wsRejected ==
    /\ mounted = "WeeklyStats"
    /\ ws.inFlight > 0
    /\ ws' = [ws EXCEPT !.error = Some("Failed to fetch weekly statistics"),
                        !.loading = FALSE,
                        !.inFlight = @ - 1,
                        !.last = "failed"]
    /\ UNCHANGED <<log, now, mounted, en, sb, trendVars, detection, panelVars>>

HasValidStatsData(weeklyStats) ==
    /\ weeklyStats # None
    /\ weeklyStats[1].days # None
    /\ weeklyStats[1].avg_temps # None
    /\ weeklyStats[1].min_temps # None
    /\ weeklyStats[1].max_temps # None
    /\ weeklyStats[1].weekly_avg # None
    /\ weeklyStats[1].temp_std_dev # None

\* the first per-day minimum instead of the smallest
MinTempValueFirst(weeklyStats) ==
    IF HasValidStatsData(weeklyStats) /\ Len(weeklyStats[1].min_temps[1]) > 0
    THEN Some(weeklyStats[1].min_temps[1][1])
    ELSE None

\* minTempValue; None stands for 'N/A'
MinTempValue(weeklyStats) ==
    IF HasValidStatsData(weeklyStats) /\ Len(weeklyStats[1].min_temps[1]) > 0
    THEN Some(SeqMin(weeklyStats[1].min_temps[1]))
    ELSE None

\* maxTempValue; None stands for 'N/A'
MaxTempValue(weeklyStats) ==
    IF HasValidStatsData(weeklyStats) /\ Len(weeklyStats[1].max_temps[1]) > 0
    THEN Some(SeqMax(weeklyStats[1].max_temps[1]))
    ELSE None

\* the blocks WeeklyStats renders
wsShowsSpinner == ws.loading
wsShowsError == ws.error # None
wsShowsNoData == ~ws.loading /\ ws.error = None /\ ~HasValidStatsData(ws.weeklyStats)
wsShowsSummary == HasValidStatsData(ws.weeklyStats)

wsInit ==
    ws = [weeklyStats |-> None,
          chartData |-> [labels |-> <<>>, avg |-> <<>>, min |-> <<>>, max |-> <<>>],
          loading |-> TRUE,
          error |-> None,
          inFlight |-> 0,
          last |-> "none",
          asOf |-> [log |-> <<>>, today |-> 1]]

(***************************************************************************)
(* WeeklyStatsEnhanced                                                     *)
(***************************************************************************)
\* fetchWeeklyStats up to the await: setLoading(true), request sent; called
\* on mount, by the 5-minute interval and by the retry button
enFetchWeeklyStats ==
    /\ mounted = "WeeklyStatsEnhanced"
    /\ en.inFlight < MaxInFlight
    /\ en' = [en EXCEPT !.loading = TRUE, !.inFlight = @ + 1]
    /\ UNCHANGED <<log, now, mounted, ws, sb, trendVars, detection, panelVars>>

\* the response arrived and its body parsed to data; last and asOf record
\* what was delivered and from which log
enResolved(data) ==
    /\ mounted = "WeeklyStatsEnhanced"
    /\ en.inFlight > 0
    /\ LET handled ==
               IF data.success
               THEN [en EXCEPT !.weeklyData = Some(data), !.error = None]
               ELSE [en EXCEPT !.error = Some(data.error)]
       IN  en' = [handled EXCEPT !.loading = FALSE,
                                 !.inFlight = @ - 1,
                                 !.last = IF "dates" \in DOMAIN data
                                          THEN PayloadKind(data.dates) ELSE "error",
                                 !.asOf = IF "dates" \in DOMAIN data
                                          THEN [log |-> log, today |-> now] ELSE @]
    /\ UNCHANGED <<log, now, mounted, ws, sb, trendVars, detection, panelVars>>

\* fetch or response.json() threw
enRejected ==
    /\ mounted = "WeeklyStatsEnhanced"
    /\ en.inFlight > 0
    /\ en' = [en EXCEPT !.error = Some("Erreur de connexion au serveur"),
                        !.loading = FALSE,
                        !.inFlight = @ - 1,
                        !.last = "failed"]
    /\ UNCHANGED <<log, now, mounted, ws, sb, trendVars, detection, panelVars>>

\* which of its four renderings WeeklyStatsEnhanced returns
enView ==
    IF en.loading THEN "loading"
    ELSE IF en.error # None THEN "error"
    ELSE IF en.weeklyData = None \/ Len(en.weeklyData[1].dates) = 0 THEN "empty"
    ELSE "chart"

enInit ==
    en = [weeklyData |-> None,
          loading |-> TRUE,
          error |-> None,
          inFlight |-> 0,
          last |-> "none",
          asOf |-> [log |-> <<>>, today |-> 1]]

(***************************************************************************)
(* TemperatureStatsBox                                                     *)
(***************************************************************************)
\* data?.dates?.length > 0
HasDates(data) == "dates" \in DOMAIN data /\ Len(data.dates) > 0

\* min and avg of the last day, max of the first day
StatsOfMixedDays(data) ==
    LET lastIdx == Len(data.dates)
    IN  [min |-> data.minTemps[lastIdx],
         max |-> data.maxTemps[1],
         avg |-> data.avgTemps[lastIdx]]

\* the values at the last index of the three arrays
StatsOf(data) ==
    LET lastIdx == Len(data.dates)
    IN  [min |-> data.minTemps[lastIdx],
         max |-> data.maxTemps[lastIdx],
         avg |-> data.avgTemps[lastIdx]]

\* a timer fires (the initial 500 ms timer or a 2 s retry timer): fetchStats
\* runs up to the await
sbFetchStats ==
    /\ mounted = "TemperatureStatsBox"
    /\ sb.timer # "none"
    /\ sb' = [sb EXCEPT !.timer = "none",
                        !.loading = TRUE,
                        !.error = None,
                        !.inFlight = @ + 1]
    /\ UNCHANGED <<log, now, mounted, ws, en, trendVars, detection, panelVars>>

\* the response is OK and its body parsed to data; last and asOf record what
\* was delivered and from which log
sbResolved(data) ==
    /\ mounted = "TemperatureStatsBox"
    /\ sb.inFlight > 0
    /\ sb' = [sb EXCEPT !.stats = IF HasDates(data) THEN Some(StatsOf(data)) ELSE None,
                        !.loading = FALSE,
                        !.inFlight = @ - 1,
                        !.last = IF "dates" \in DOMAIN data
                                 THEN PayloadKind(data.dates) ELSE "error",
                        !.asOf = IF "dates" \in DOMAIN data
                                 THEN [log |-> log, today |-> now] ELSE @]
    /\ UNCHANGED <<log, now, mounted, ws, en, trendVars, detection, panelVars>>

\* fetch threw or the response is not OK: the error is shown and a retry
\* is scheduled 2 seconds later
sbRejected ==
    /\ mounted = "TemperatureStatsBox"
    /\ sb.inFlight > 0
    /\ sb' = [sb EXCEPT !.error = Some("HTTP error"),
                        !.stats = None,
                        !.loading = FALSE,
                        !.inFlight = @ - 1,
                        !.timer = "retry",
                        !.last = "failed"]
    /\ UNCHANGED <<log, now, mounted, ws, en, trendVars, detection, panelVars>>

\* which of its four renderings TemperatureStatsBox returns
sbView ==
    IF sb.loading THEN "loading"
    ELSE IF sb.error # None THEN "error"
    ELSE IF sb.stats = None THEN "empty"
    ELSE "stats"

sbInit ==
    sb = [stats |-> None,
          loading |-> TRUE,
          error |-> None,
          inFlight |-> 0,
          timer |-> "initial",
          last |-> "none",
          asOf |-> [log |-> <<>>, today |-> 1]]

(***************************************************************************)
(* The weekly statistics views over a growing reading log                  *)
(***************************************************************************)
Components == {"WeeklyStats", "WeeklyStatsEnhanced", "TemperatureStatsBox"}

WeeklyInit ==
    /\ log = <<>>
    /\ now = 1
    /\ mounted \in Components
    /\ wsInit
    /\ enInit
    /\ sbInit

\* the readings appended beside the weekly statistics views
WeeklyTemps == {10, 20}

WeeklyNext ==
    \/ \E temp \in WeeklyTemps : append(temp)
    \/ AdvanceDay
    \/ wsGetWeeklyStats
    \/ \E data \in {WeeklyStatsPayload(log, now), IncompletePayload} : wsResolved(data)
    \/ wsRejected
    \/ enFetchWeeklyStats
    \/ \E data \in {EnhancedPayload(log, now), ErrorPayload} : enResolved(data)
    \/ enRejected
    \/ sbFetchStats
    \/ \E data \in {EnhancedPayload(log, now), ErrorPayload} : sbResolved(data)
    \/ sbRejected

(***************************************************************************)
(* Anomaly Detector (backend behind /api/ai/anomalies)                     *)
(***************************************************************************)
\* z-score thresholds are counted in halves: threshold k stands for k / 2
Thresholds == 1 .. MaxThreshold

InAnalysisWindow(d, end) == d > end - AnalysisDays /\ d <= end

\* the lookback before the analysis window, which it excludes
InBaselineWindow(d, end) ==
    d > end - AnalysisDays - LookbackDays /\ d <= end - AnalysisDays

AnalysisReadings(lg, end) == SelectSeq(lg, LAMBDA r : InAnalysisWindow(r.day, end))

BaselineTemps(lg, end) ==
    TempsOf(SelectSeq(lg, LAMBDA r : InBaselineWindow(r.day, end)))

\* n * n * variance of s
ScaledVariance(s) == Len(s) * SeqSum(Squares(s)) - SeqSum(s) * SeqSum(s)

\* n * (v - mean of s)
ScaledDeviation(v, s) == Len(s) * v - SeqSum(s)

\* flags the readings within the threshold instead of those beyond it
IsAnomalousInverted(v, baseline, k) ==
    /\ baseline # <<>>
    /\ ScaledVariance(baseline) # 0
    /\ 4 * ScaledDeviation(v, baseline) * ScaledDeviation(v, baseline)
           < k * k * ScaledVariance(baseline)

\* compares without the test for a zero standard deviation
IsAnomalousUnguarded(v, baseline, k) ==
    /\ baseline # <<>>
    /\ 4 * ScaledDeviation(v, baseline) * ScaledDeviation(v, baseline)
           > k * k * ScaledVariance(baseline)

\* |z| > k / 2 with z = (v - mean) / stddev, both sides squared and
\* multiplied by 4 * n * n * variance; with a zero standard deviation, or
\* without a baseline, nothing is anomalous
IsAnomalous(v, baseline, k) ==
    /\ baseline # <<>>
    /\ ScaledVariance(baseline) # 0
    /\ 4 * ScaledDeviation(v, baseline) * ScaledDeviation(v, baseline)
           > k * k * ScaledVariance(baseline)

\* severity is the highest of the thresholds 2.0 (warning) and 3.0
\* (critical) that the z-score exceeds
SeverityOf(v, baseline) ==
    IF IsAnomalous(v, baseline, 6) THEN "critical"
    ELSE IF IsAnomalous(v, baseline, 4) THEN "warning"
    ELSE "info"

AnomalyRecord(r, baseline) ==
    [timestamp |-> r.day,
     observed_value |-> r.temp,
     baseline_mean |-> Frac(SeqSum(baseline), Len(baseline)),
     baseline_variance |-> PopulationVariance(baseline),
     z_squared |-> IF ScaledVariance(baseline) = 0 THEN None
                   ELSE Some(Frac(ScaledDeviation(r.temp, baseline)
                                      * ScaledDeviation(r.temp, baseline),
                                  ScaledVariance(baseline))),
     severity |-> SeverityOf(r.temp, baseline)]

\* the readings of the analysis window that threshold k flags, in log order
Flagged(lg, end, k) ==
    LET baseline == BaselineTemps(lg, end)
        hits == SelectSeq(AnalysisReadings(lg, end),
                          LAMBDA r : IsAnomalous(r.temp, baseline, k))
    IN  [i \in 1 .. Len(hits) |-> AnomalyRecord(hits[i], baseline)]

GetAnomalies(lg, end, k) ==
    LET flagged == Flagged(lg, end, k)
    IN  [outcome |-> "ok",
         anomalies_detected |-> Len(flagged),
         total_readings |-> Len(AnalysisReadings(lg, end)),
         flagged |-> flagged]

\* get_anomalies with the z-score cutoff k; nothing is persisted
get_anomalies(k) ==
    /\ detection' = [threshold |-> k, result |-> Some(GetAnomalies(log, now, k))]
    /\ UNCHANGED <<weeklyVars, trendVars, panelVars>>

AnomalyInit == detection = NoDetection

AnomalyNext ==
    \/ \E temp \in ReadingTemps : append(temp)
    \/ AdvanceDay
    \/ \E k \in Thresholds : get_anomalies(k)

(***************************************************************************)
(* Predictor (backend behind /api/predict-temperature)                     *)
(***************************************************************************)
\* fewer readings than this in the trailing window give no prediction
MinSamples == 3

InPredictWindow(d, end) == d > end - PredictWindow /\ d <= end

PredictSamples(lg, end) == SelectSeq(lg, LAMBDA r : InPredictWindow(r.day, end))

DaysOf(readings) == [i \in 1 .. Len(readings) |-> readings[i].day]

Products(xs, ys) == [i \in 1 .. Len(xs) |-> xs[i] * ys[i]]

\* least-squares line through the samples (day, temp), read off at target;
\* samples that all lie on one day have no slope and give their mean
RegressionFit(samples, target) ==
    LET n == Len(samples)
        xs == DaysOf(samples)
        ys == TempsOf(samples)
        sxx == n * SeqSum(Squares(xs)) - SeqSum(xs) * SeqSum(xs)
        sxy == n * SeqSum(Products(xs, ys)) - SeqSum(xs) * SeqSum(ys)
    IN  IF sxx = 0
        THEN [model_type |-> "mean", predicted_value |-> Frac(SeqSum(ys), n)]
        ELSE [model_type |-> "linear-regression",
              predicted_value |->
                  Frac(SeqSum(ys) * sxx + sxy * (n * target - SeqSum(xs)), n * sxx)]

\* predict for the next time unit from the trailing window
Predict(lg, end) ==
    LET samples == PredictSamples(lg, end)
    IN  IF Len(samples) < MinSamples
        THEN [status |-> "insufficient-data",
              sample_count |-> Len(samples),
              model_type |-> "none",
              predicted_value |-> None]
        ELSE LET fit == RegressionFit(samples, end + 1)
             IN  [status |-> "ok",
                  sample_count |-> Len(samples),
                  model_type |-> fit.model_type,
                  predicted_value |-> Some(fit.predicted_value)]

\* body of GET /api/predict-temperature: the insufficient-data result
\* carries no predicted_temperature_next_hour
PredictPayload(lg, end) ==
    LET r == Predict(lg, end)
    IN  [status |-> r.status,
         model_type |-> r.model_type,
         predicted_temperature_next_hour |-> r.predicted_value]

(***************************************************************************)
(* TemperaturePrediction                                                   *)
(***************************************************************************)
\* Number.prototype.toFixed(1) of the fraction f: the nearest number of
\* tenths, halves away from zero
ToFixed1(f) ==
    LET a == IF f.num < 0 THEN 0 - f.num ELSE f.num
        tenths == (20 * a + f.den) \div (2 * f.den)
    IN  IF f.num < 0 THEN 0 - tenths ELSE tenths

\* what the component holds in prediction: the initial '--', 'Erreur', or
\* a number formatted to one decimal (kept in tenths)
Placeholder == [kind |-> "placeholder", tenths |-> 0]
Erreur == [kind |-> "error", tenths |-> 0]
Formatted(f) == [kind |-> "value", tenths |-> ToFixed1(f)]

\* fetchData up to the await; called on mount and by the 5-minute interval
tpFetchData ==
    /\ tp.inFlight < MaxInFlight
    /\ tp' = [tp EXCEPT !.inFlight = @ + 1]
    /\ UNCHANGED notPredictVars

\* the response arrived and its body parsed to data; .toFixed on a missing
\* predicted_temperature_next_hour throws a TypeError into the catch block
tpResolved(data) ==
    /\ tp.inFlight > 0
    /\ tp' = [tp EXCEPT !.prediction =
                            IF data.predicted_temperature_next_hour = None
                            THEN Erreur
                            ELSE Formatted(data.predicted_temperature_next_hour[1]),
                        !.isLoading = FALSE,
                        !.inFlight = @ - 1,
                        !.last = data.status]
    /\ UNCHANGED notPredictVars

\* fetch or response.json() threw
tpRejected ==
    /\ tp.inFlight > 0
    /\ tp' = [tp EXCEPT !.prediction = Erreur,
                        !.isLoading = FALSE,
                        !.inFlight = @ - 1,
                        !.last = "failed"]
    /\ UNCHANGED notPredictVars

\* what TemperaturePrediction renders
tpView ==
    IF tp.isLoading THEN "loading"
    ELSE IF tp.prediction.kind = "error" THEN "error"
    ELSE IF tp.prediction.kind = "placeholder" THEN "empty"
    ELSE "value"

tpInit ==
    tp = [prediction |-> Placeholder,
          isLoading |-> TRUE,
          inFlight |-> 0,
          last |-> "none"]

PredictNext ==
    \/ \E temp \in ReadingTemps : append(temp)
    \/ AdvanceDay
    \/ tpFetchData
    \/ tpResolved(PredictPayload(log, now))
    \/ tpRejected

(***************************************************************************)
(* Health Scorer (backend behind /api/iot/health)                          *)
(***************************************************************************)
\* battery levels in percent: full, and the floor at and below which the
\* battery score is 0; below WarningLevel a battery alert is a warning
FullLevel == 100
CriticalFloor == 5
WarningLevel == 20

\* the levels sensors report
BatteryLevels == {3, CriticalFloor, FullLevel}

\* a DeviceStatus; its sensor_id is its position in the registry
Statuses == [online : BOOLEAN, battery_level : BatteryLevels]

OnlineSensors(reg) == {i \in 1 .. Len(reg) : reg[i].online}

\* percentage of the registered sensors that are online
ConnectivityScore(reg) ==
    IF reg = <<>> THEN None
    ELSE Some(Frac(100 * Cardinality(OnlineSensors(reg)), Len(reg)))

MinBatteryLevel(reg) ==
    CHOOSE b \in {reg[i].battery_level : i \in OnlineSensors(reg)} :
        \A i \in OnlineSensors(reg) : b <= reg[i].battery_level

\* linear between the critical floor (0) and full (100), 0 below the floor
ScaleBattery(level) ==
    IF level <= CriticalFloor THEN Frac(0, 1)
    ELSE Frac(100 * (level - CriticalFloor), FullLevel - CriticalFloor)

\* no sensor online: there is no battery level to scale
BatteryScore(reg) ==
    IF OnlineSensors(reg) = {} THEN None
    ELSE Some(ScaleBattery(MinBatteryLevel(reg)))

\* the alerts sensor i warrants: one for its battery when that is below a
\* threshold, one when it is offline
BatteryAlerts(reg, i) ==
    IF reg[i].battery_level < CriticalFloor
    THEN <<[sensor_id |-> i, message |-> "battery critical", severity |-> "critical"]>>
    ELSE IF reg[i].battery_level < WarningLevel
    THEN <<[sensor_id |-> i, message |-> "battery low", severity |-> "warning"]>>
    ELSE <<>>

OfflineAlerts(reg, i) ==
    IF reg[i].online THEN <<>>
    ELSE <<[sensor_id |-> i, message |-> "offline", severity |-> "warning"]>>

\* the alerts of the sensors i .. Len(reg), in sensor order
RECURSIVE AlertsFrom(_, _)
AlertsFrom(reg, i) ==
    IF i > Len(reg) THEN <<>>
    ELSE BatteryAlerts(reg, i) \o OfflineAlerts(reg, i) \o AlertsFrom(reg, i + 1)

\* get_device_health: computed from the registry alone, nothing is kept
GetDeviceHealth(reg) ==
    [battery_score |-> BatteryScore(reg),
     connectivity_score |-> ConnectivityScore(reg),
     online_sensors |-> Cardinality(OnlineSensors(reg)),
     total_sensors |-> Len(reg),
     alerts |-> AlertsFrom(reg, 1)]

\* a sensor is registered
Register(status) ==
    /\ Len(registry) < MaxSensors
    /\ registry' = Append(registry, status)
    /\ UNCHANGED <<dash, notHealthVars>>

\* a registered sensor goes offline or comes back online
ReportOnline(i) ==
    /\ i \in 1 .. Len(registry)
    /\ registry' = [registry EXCEPT ![i].online = ~@]
    /\ UNCHANGED <<dash, notHealthVars>>

\* a registered sensor reports another battery level
ReportBattery(i, level) ==
    /\ i \in 1 .. Len(registry)
    /\ registry[i].battery_level # level
    /\ registry' = [registry EXCEPT ![i].battery_level = level]
    /\ UNCHANGED <<dash, notHealthVars>>

(***************************************************************************)
(* AiIotDashboard: the device health it loads and shows                    *)
(***************************************************************************)
InSeq(x, seq) == \E i \in 1 .. Len(seq) : seq[i] = x

\* keeps the alerts already shown and adds those of the new response
SetIotHealthKeeping(iotHealth, data) ==
    IF iotHealth = None THEN Some(data)
    ELSE Some([data EXCEPT !.alerts =
                   SelectSeq(iotHealth[1].alerts, LAMBDA a : ~InSeq(a, data.alerts))
                       \o data.alerts])

\* setIotHealth(data)
SetIotHealth(iotHealth, data) == Some(data)

\* the Device Alerts card: iotHealth?.alerts, shown when not empty
ShownAlerts ==
    IF dash.iotHealth = None THEN <<>> ELSE dash.iotHealth[1].alerts

\* loadData up to the await: setLoading(true), setError(null), the requests
\* are sent; called on mount and by the 30-second interval
dashLoadData ==
    /\ dash.inFlight < MaxInFlight
    /\ dash' = [dash EXCEPT !.loading = TRUE, !.error = None, !.inFlight = @ + 1]
    /\ UNCHANGED <<registry, notHealthVars>>

\* fetchIotHealth got an OK response with the body data, and loadData ends;
\* asOf records the registry the body was computed from, dropped whether an
\* alert shown before is not among those of data
dashHealthOk(data) ==
    /\ dash.inFlight > 0
    /\ dash' = [dash EXCEPT !.iotHealth = SetIotHealth(@, data),
                            !.loading = FALSE,
                            !.inFlight = @ - 1,
                            !.asOf = registry,
                            !.dropped = \E i \in 1 .. Len(ShownAlerts) :
                                            ~InSeq(ShownAlerts[i], data.alerts)]
    /\ UNCHANGED <<registry, notHealthVars>>

\* the response is not OK, or fetch threw and fetchIotHealth caught it:
\* iotHealth stays as it was, and loadData ends
dashHealthFailed ==
    /\ dash.inFlight > 0
    /\ dash' = [dash EXCEPT !.loading = FALSE, !.inFlight = @ - 1]
    /\ UNCHANGED <<registry, notHealthVars>>

\* the Sensors tile with the two counts exchanged
SensorsTileSwapped(iotHealth) ==
    [online |-> iotHealth.total_sensors, total |-> iotHealth.online_sensors]

\* the Sensors tile: {online_sensors}/{total_sensors}
SensorsTile(iotHealth) ==
    [online |-> iotHealth.online_sensors, total |-> iotHealth.total_sensors]

\* the Battery tile showing the connectivity score
BatteryTileConnectivity(iotHealth) == iotHealth.connectivity_score

\* the Battery tile: {battery_score}%

BatteryTile(iotHealth) == iotHealth.battery_score

\* the Connectivity tile: {connectivity_score}%
ConnectivityTile(iotHealth) == iotHealth.connectivity_score

dashInit ==
    dash = [iotHealth |-> None,
            loading |-> TRUE,
            error |-> None,
            inFlight |-> 0,
            asOf |-> <<>>,
            dropped |-> FALSE]

HealthInit ==
    /\ registry = <<>>
    /\ dashInit

HealthNext ==
    \/ \E status \in Statuses : Register(status)
    \/ \E i \in 1 .. MaxSensors : ReportOnline(i)
    \/ \E i \in 1 .. MaxSensors, level \in BatteryLevels : ReportBattery(i, level)
    \/ dashLoadData
    \/ dashHealthOk(GetDeviceHealth(registry))
    \/ dashHealthFailed

(***************************************************************************)
(* Box plot data (backend behind /api/boxplot-data)                        *)
(***************************************************************************)
RECURSIVE Insert(_, _)
Insert(x, s) ==
    IF s = <<>> THEN <<x>>
    ELSE IF x <= Head(s) THEN <<x>> \o s
    ELSE <<Head(s)>> \o Insert(x, Tail(s))

RECURSIVE Sort(_)
Sort(s) == IF s = <<>> THEN <<>> ELSE Insert(Head(s), Sort(Tail(s)))

\* the k-th quartile of the ascending sequence sorted, by linear
\* interpolation between the two values nearest to position (n - 1) * k / 4
Quartile(sorted, k) ==
    LET pos == (Len(sorted) - 1) * k
        lo == pos \div 4
        rem == pos % 4
    IN  IF rem = 0 THEN Frac(sorted[lo + 1], 1)
        ELSE Frac(sorted[lo + 1] * (4 - rem) + sorted[lo + 2] * rem, 4)

\* the five-number summary of the readings of day d
BoxOf(lg, d) ==
    LET sorted == Sort(TempsOf(ReadingsOn(lg, d)))
    IN  [date |-> d,
         min |-> Frac(sorted[1], 1),
         q1 |-> Quartile(sorted, 1),
         median |-> Quartile(sorted, 2),
         q3 |-> Quartile(sorted, 3),
         max |-> Frac(sorted[Len(sorted)], 1)]

\* the boxes of the days d .. end, in date order; a day without readings
\* has no box
RECURSIVE BoxesFrom(_, _, _)
BoxesFrom(lg, d, end) ==
    IF d > end THEN <<>>
    ELSE IF d < 1 \/ ReadingsOn(lg, d) = <<>> THEN BoxesFrom(lg, d + 1, end)
    ELSE <<BoxOf(lg, d)>> \o BoxesFrom(lg, d + 1, end)

GetBoxplotData(lg, end) == BoxesFrom(lg, end - BoxplotDays + 1, end)

\* body of GET /api/boxplot-data
BoxplotPayload(lg, end) == [error |-> None, data |-> GetBoxplotData(lg, end)]

\* a body that reports an error
BoxplotErrorPayload == [error |-> Some("error"), data |-> <<>>]

(***************************************************************************)
(* BoxPlotStats                                                            *)
(***************************************************************************)
\* a trace with the median and the first quartile exchanged
PlotTraceMisplaced(day) ==
    [name |-> day.date, y |-> <<day.min, day.median, day.q1, day.q3, day.max>>]

\* the Plotly trace of one day: y: [min, q1, median, q3, max]
PlotTrace(day) ==
    [name |-> day.date, y |-> <<day.min, day.q1, day.median, day.q3, day.max>>]

\* what BoxPlotStats renders
bpView ==
    IF bp.loading THEN "loading"
    ELSE IF bp.error # None \/ bp.boxData = None THEN "error"
    ELSE "plot"

\* plotData, when the plot is rendered
PlotData ==
    IF bpView = "plot"
    THEN [i \in 1 .. Len(bp.boxData[1].data) |-> PlotTrace(bp.boxData[1].data[i])]
    ELSE <<>>

\* fetchBoxPlotData up to the await: setLoading(true), request sent; called
\* on mount and by the Retry button of the error rendering
bpFetchBoxPlotData ==
    /\ bp.inFlight = 0
    /\ ~bp.started \/ bpView = "error"
    /\ bp' = [bp EXCEPT !.started = TRUE, !.loading = TRUE, !.inFlight = 1]
    /\ UNCHANGED <<notBoxVars>>

\* the response is OK and its body parsed to data; asOf records the log
\* the body was computed from
bpResolved(data) ==
    /\ bp.inFlight > 0
    /\ LET handled ==
               IF data.error # None
               THEN [bp EXCEPT !.error = Some(data.error[1])]
               ELSE [bp EXCEPT !.boxData = Some(data),
                               !.error = None,
                               !.asOf = [log |-> log, today |-> now]]
       IN  bp' = [handled EXCEPT !.loading = FALSE, !.inFlight = 0]
    /\ UNCHANGED <<notBoxVars>>

\* the response is not OK: reading the undeclared response throws a
\* ReferenceError into the catch block
bpNotOk ==
    /\ bp.inFlight > 0
    /\ bp' = [bp EXCEPT !.error = Some("response is not defined"),
                        !.loading = FALSE,
                        !.inFlight = 0]
    /\ UNCHANGED <<notBoxVars>>

\* fetch or res.json() threw
bpRejected ==
    /\ bp.inFlight > 0
    /\ bp' = [bp EXCEPT !.error = Some("Failed to fetch"),
                        !.loading = FALSE,
                        !.inFlight = 0]
    /\ UNCHANGED <<notBoxVars>>

bpInit ==
    bp = [boxData |-> None,
          loading |-> TRUE,
          error |-> None,
          started |-> FALSE,
          inFlight |-> 0,
          asOf |-> [log |-> <<>>, today |-> 1]]

BoxplotNext ==
    \/ \E temp \in ReadingTemps : append(temp)
    \/ AdvanceDay
    \/ bpFetchBoxPlotData
    \/ \E data \in {BoxplotPayload(log, now), BoxplotErrorPayload} : bpResolved(data)
    \/ bpNotOk
    \/ bpRejected

(***************************************************************************)
(* Reading Store at the grain of its lock: append, query, validation       *)
(***************************************************************************)
\* the plausible range of a temperature, and how far a timestamp may lie
\* ahead of the clock
MinPlausible == 0 - 90
MaxPlausible == 60
SkewTolerance == 1

\* the temperatures and timestamps offered to append
OfferedTemps == {MinPlausible - 1, MinPlausible, MaxPlausible, MaxPlausible + 1}
Stamps == 1 .. MaxDay + SkewTolerance + 1

\* plausible without an upper limit
IsPlausibleNoCeiling(temp) == temp >= MinPlausible

IsPlausible(temp) == temp >= MinPlausible /\ temp <= MaxPlausible

NotInFuture(ts, clock) == ts <= clock + SkewTolerance

IsValidReading(r, clock) == IsPlausible(r.temperature) /\ NotInFuture(r.timestamp, clock)

\* single writer, multiple readers: a reader that enters whatever the
\* writer does
MayReadUnguarded(store) == TRUE

\* a reader enters when no writer holds the lock
MayRead(store) == ~store.writing

\* a writer enters when nobody holds the lock
MayWrite(store) == ~store.writing /\ store.readers = 0

\* what a query sees when the newest append is still held in a write buffer
VisibleBuffered(slots) == IF slots = <<>> THEN <<>> ELSE SubSeq(slots, 1, Len(slots) - 1)

\* what a query sees of the slots: all of them, there is no write buffer
Visible(slots) == slots

RECURSIVE InsertByTime(_, _)
InsertByTime(x, s) ==
    IF s = <<>> THEN <<x>>
    ELSE IF x.timestamp[1] < Head(s).timestamp[1] THEN <<x>> \o s
    ELSE <<Head(s)>> \o InsertByTime(x, Tail(s))

\* the slots in time order, slots of one timestamp in the order of arrival
RECURSIVE SortByTime(_)
SortByTime(s) ==
    IF s = <<>> THEN <<>>
    ELSE InsertByTime(s[Len(s)], SortByTime(SubSeq(s, 1, Len(s) - 1)))

\* the readings with start <= timestamp < end, in time order
QueryRange(slots, start, end) ==
    SortByTime(SelectSeq(Visible(slots),
                         LAMBDA x : x.timestamp[1] >= start /\ x.timestamp[1] < end))

\* appendCall and query tell what the last operation on the store returned
NoCall == [outcome |-> "none", reading |-> None, at |-> 0, before |-> <<>>]

IdleQuery == [phase |-> "idle", start |-> 0, end |-> 0, result |-> <<>>]

Forget(q) == IF q.phase = "returned" THEN IdleQuery ELSE q

\* append of a reading that fails validation: ValidationError, nothing is
\* written
appendRejected(r) ==
    /\ ~IsValidReading(r, now)
    /\ appendCall' = [outcome |-> "ValidationError", reading |-> Some(r),
                      at |-> now, before |-> st.slots]
    /\ query' = Forget(query)
    /\ UNCHANGED <<st, notStoreVars>>

\* append of a valid reading takes the write lock and writes the first
\* field of a new slot
appendBegin(r) ==
    /\ IsValidReading(r, now)
    /\ Len(st.slots) < MaxStored
    /\ MayWrite(st)
    /\ st' = [st EXCEPT !.writing = TRUE,
                        !.pending = Some([reading |-> r, at |-> now]),
                        !.slots = Append(@, [timestamp |-> Some(r.timestamp),
                                             temperature |-> None])]
    /\ appendCall' = [outcome |-> "writing", reading |-> Some(r),
                      at |-> now, before |-> <<>>]
    /\ query' = Forget(query)
    /\ UNCHANGED <<notStoreVars>>

\* the writer writes the remaining field, releases the lock and returns
appendEnd ==
    /\ st.writing
    /\ st' = [st EXCEPT !.writing = FALSE,
                        !.pending = None,
                        !.slots[Len(st.slots)].temperature =
                            Some(st.pending[1].reading.temperature),
                        !.acked = Append(@, st.pending[1].reading)]
    /\ appendCall' = [outcome |-> "ok", reading |-> Some(st.pending[1].reading),
                      at |-> st.pending[1].at, before |-> <<>>]
    /\ query' = Forget(query)
    /\ UNCHANGED <<notStoreVars>>

\* query(range) takes the lock as a reader
queryBegin ==
    /\ query.phase # "scanning"
    /\ MayRead(st)
    /\ st' = [st EXCEPT !.readers = @ + 1]
    /\ query' = [IdleQuery EXCEPT !.phase = "scanning"]
    /\ appendCall' = IF appendCall.outcome = "writing" THEN appendCall ELSE NoCall
    /\ UNCHANGED <<notStoreVars>>

\* the query reads the slots of its range [start, end), releases the lock
\* and returns them
queryEnd(start, end) ==
    /\ start <= end
    /\ query.phase = "scanning"
    /\ st' = [st EXCEPT !.readers = @ - 1]
    /\ query' = [phase |-> "returned", start |-> start, end |-> end,
                 result |-> QueryRange(st.slots, start, end)]
    /\ appendCall' = IF appendCall.outcome = "writing" THEN appendCall ELSE NoCall
    /\ UNCHANGED <<notStoreVars>>

StoreInit ==
    /\ st = [slots |-> <<>>, acked |-> <<>>, writing |-> FALSE, pending |-> None,
             readers |-> 0]
    /\ appendCall = NoCall
    /\ query = IdleQuery

StoreNext ==
    \/ AdvanceDay
    \/ \E ts \in Stamps, temp \in OfferedTemps :
           appendRejected([timestamp |-> ts, temperature |-> temp])
    \/ \E ts \in Stamps, temp \in OfferedTemps :
           appendBegin([timestamp |-> ts, temperature |-> temp])
    \/ appendEnd
    \/ queryBegin
    \/ \E start \in Stamps, end \in Stamps : queryEnd(start, end)

(***************************************************************************)
(* ClothingSuggestion                                                      *)
(***************************************************************************)
\* the temperature prop: null, undefined (the prop is optional), or a
\* number, kept in tenths of a degree
Null == [kind |-> "null", tenths |-> 0]
Undefined == [kind |-> "undefined", tenths |-> 0]
Number(n) == [kind |-> "number", tenths |-> n]

ClothingProps ==
    {Null, Undefined} \cup {Number(n) : n \in (0 - BeyondRanges) .. (300 + BeyondRanges)}

\* temperature < limit, with limit in whole degrees: false for undefined,
\* which compares as NaN
LessThan(temperature, limit) ==
    temperature.kind = "number" /\ temperature.tenths < 10 * limit

\* the title of the suggestion returned, None for null
getClothingSuggestion(temperature) ==
    IF temperature.kind = "null" THEN None
    ELSE IF LessThan(temperature, 5) THEN Some("Very Cold Weather")
    ELSE IF LessThan(temperature, 10) THEN Some("Cold Weather")
    ELSE IF LessThan(temperature, 15) THEN Some("Cool Weather")
    ELSE IF LessThan(temperature, 20) THEN Some("Mild Weather")
    ELSE IF LessThan(temperature, 25) THEN Some("Pleasant Weather")
    ELSE IF LessThan(temperature, 30) THEN Some("Warm Weather")
    ELSE Some("Hot Weather")

\* the component is rendered with the prop temperature
ClothingSuggestion(temperature) ==
    /\ cs' = [temperature |-> temperature,
              suggestion |-> getClothingSuggestion(temperature)]
    /\ UNCHANGED <<notClothingVars>>

\* what ClothingSuggestion shows below its heading
csView ==
    IF cs.suggestion = None THEN "Waiting for temperature data..."
    ELSE cs.suggestion[1]

csInit == cs = [temperature |-> Null, suggestion |-> getClothingSuggestion(Null)]

ClothingNext == \E temperature \in ClothingProps : ClothingSuggestion(temperature)

(***************************************************************************)
(* fetchLatestTemperature, backend variant, and TemperatureMap             *)
(***************************************************************************)
\* a latitude or longitude of the response body: missing, a number, a
\* string holding a number, or a string holding none
Missing == [kind |-> "missing", value |-> 0]
CoordinateValues ==
    {Missing, [kind |-> "text", value |-> 0]}
        \cup [kind : {"number", "numeral"}, value : 0 .. MaxCoordinate]

\* typeof c === 'string' ? parseFloat(c) : c
ParseCoordinate(c) ==
    IF c.kind = "numeral" THEN [kind |-> "number", value |-> c.value]
    ELSE IF c.kind = "text" THEN [kind |-> "NaN", value |-> 0]
    ELSE c

\* c && !isNaN(c): undefined, 0 and NaN do not pass
IsUsable(c) == c.kind = "number" /\ c.value # 0

\* display_name split at ', '
DisplayNames ==
    {<<"Agadir", "Souss-Massa", "Morocco">>, <<"Inezgane", "Morocco">>, <<"Paris">>}

\* `${city}, ${country}` of the first and the last part
NameOf(parts) == <<parts[1], parts[Len(parts)]>>

UnknownLocation == <<"Unknown Location">>

\* the initial 500 ms timer fires: fetchLocationData runs up to its first
\* await, fetchLatestTemperature has sent its request
tmFetchLocationData ==
    /\ tm.timer # "none"
    /\ tm' = [tm EXCEPT !.timer = "none",
                        !.loading = TRUE,
                        !.error = None,
                        !.phase = "latest"]
    /\ UNCHANGED <<backendUp, notMapVars>>

\* the request fails (network error or non-OK response):
\* fetchLatestTemperature logs it and returns undefined, so
\* fetchLocationData takes its else branch and its catch block, the only
\* place that schedules a retry, is not entered
tmLatestFailed ==
    /\ tm.phase = "latest"
    /\ ~backendUp
    /\ tm' = [tm EXCEPT !.locationName = <<>>,
                        !.loading = FALSE,
                        !.phase = "idle",
                        !.last = "failed"]
    /\ UNCHANGED <<backendUp, notMapVars>>

\* the response is 200 and carries latitude and longitude, which are
\* usable when the backend answers successfully; received records them as
\* they came
tmLatestOk(latitude, longitude) ==
    /\ tm.phase = "latest"
    /\ backendUp =>
           IsUsable(ParseCoordinate(latitude)) /\ IsUsable(ParseCoordinate(longitude))
    /\ LET lat == ParseCoordinate(latitude)
           lng == ParseCoordinate(longitude)
       IN  IF IsUsable(lat) /\ IsUsable(lng)
           THEN tm' = [tm EXCEPT !.phase = "geocode",
                                 !.pending = <<lat.value, lng.value>>,
                                 !.last = "coordinates",
                                 !.received = <<latitude, longitude>>]
           ELSE tm' = [tm EXCEPT !.locationName = <<>>,
                                 !.loading = FALSE,
                                 !.phase = "idle",
                                 !.last = "no coordinates",
                                 !.received = <<latitude, longitude>>]
    /\ UNCHANGED <<backendUp, notMapVars>>

\* getLocationName returned name: built from display_name, or 'Unknown
\* Location' when that is missing or the geocoder request threw
tmLocated(name) ==
    /\ tm.phase = "geocode"
    /\ tm' = [tm EXCEPT !.locationName = name,
                        !.loading = FALSE,
                        !.phase = "idle",
                        !.pending = <<>>]
    /\ UNCHANGED <<backendUp, notMapVars>>

\* from now on the backend answers every request successfully
BackendRecovers ==
    /\ ~backendUp
    /\ backendUp' = TRUE
    /\ UNCHANGED <<tm, notMapVars>>

\* what TemperatureMap renders
tmView ==
    IF tm.loading THEN "Loading location..."
    ELSE IF tm.error # None THEN "Error loading location"
    ELSE IF tm.locationName = <<>> THEN "No location data available"
    ELSE "location"

tmInit ==
    tm = [locationName |-> <<>>,
          loading |-> TRUE,
          error |-> None,
          timer |-> "initial",
          phase |-> "idle",
          pending |-> <<>>,
          last |-> "none",
          received |-> <<>>]

MapInit ==
    /\ tmInit
    /\ backendUp = FALSE

MapNext ==
    \/ tmFetchLocationData
    \/ tmLatestFailed
    \/ \E latitude \in CoordinateValues, longitude \in CoordinateValues :
           tmLatestOk(latitude, longitude)
    \/ \E parts \in DisplayNames : tmLocated(NameOf(parts))
    \/ tmLocated(UnknownLocation)
    \/ BackendRecovers

(***************************************************************************)
(* Content (dashboard page) and TemperatureCrad                            *)
(***************************************************************************)
\* what the backend puts in the body of /api/latest: whole degrees, some of
\* them outside the safe range of the card, and the three trend values
LatestTemps == {0 - 20, 0, 22, 60}
TrendValues == {"up", "down", "stable"}

\* getLatestTemperature up to its await: called on mount and by the
\* 10-second interval; fetchLatestTemperature has sent request number n
contentGetLatestTemperature ==
    /\ content.started < MaxRequests
    /\ content' = [content EXCEPT !.started = @ + 1,
                                  !.pending = @ \cup {content.started + 1},
                                  !.last = "started"]
    /\ UNCHANGED notContentVars

\* the three setters run in one synchronous block after the await and are
\* rendered together (the root is made by createRoot); from records the
\* request each displayed value stems from
SetLatestPartly(c, n, data) ==
    [c EXCEPT !.time = Some(data.time),
              !.temperature = Some(data.temperature),
              !.from = [@ EXCEPT !.time = n, !.temperature = n]]

SetLatest(c, n, data) ==
    [c EXCEPT !.time = Some(data.time),
              !.temperature = Some(data.temperature),
              !.trend = Some(data.trend),
              !.from = [time |-> n, temperature |-> n, trend |-> n]]

\* request n is answered with status 200: fetchLatestTemperature returns
\* time, temperature and trend of the body
contentLatestOk(n, data) ==
    /\ n \in content.pending
    /\ content' = [SetLatest(content, n, data) EXCEPT !.pending = @ \ {n},
                                                     !.last = "updated"]
    /\ UNCHANGED notContentVars

\* request n fails or its response is not OK: fetchLatestTemperature logs
\* it and returns undefined, data.time throws, the catch block logs
contentLatestFailed(n) ==
    /\ n \in content.pending
    /\ content' = [content EXCEPT !.pending = @ \ {n},
                                  !.last = "failed"]
    /\ UNCHANGED notContentVars

\* isNormalTemperature: temp >= -10 && temp <= 50, where null compares as 0
isNormalTemperature(temp) ==
    LET n == IF temp = None THEN 0 ELSE temp[1]
    IN  n >= 0 - 10 /\ n <= 50

\* temperature !== null ? temperature : "--"
ShownTemperature(temperature) ==
    IF temperature # None THEN [kind |-> "number", value |-> temperature[1]]
    ELSE [kind |-> "--", value |-> 0]

\* the indicator under the temperature
TrendIndicatorNoStable(trend) ==
    IF trend = Some("up") THEN "Rising" ELSE "Falling"

TrendIndicator(trend) ==
    IF trend # Some("stable")
    THEN IF trend = Some("up") THEN "Rising" ELSE "Falling"
    ELSE "none"

\* what TemperatureCrad renders for the props Content passes
TemperatureCrad(time, temperature, trend) ==
    [time |-> time,
     temperature |-> ShownTemperature(temperature),
     indicator |-> TrendIndicator(trend),
     verdict |-> IF isNormalTemperature(temperature)
                 THEN "Normal Temperature" ELSE "Not normal!"]

contentCard == TemperatureCrad(content.time, content.temperature, content.trend)

contentInit ==
    content = [time |-> None,
               temperature |-> None,
               trend |-> None,
               started |-> 0,
               pending |-> {},
               from |-> [time |-> 0, temperature |-> 0, trend |-> 0],
               last |-> "none"]

ContentNext ==
    \/ contentGetLatestTemperature
    \/ \E n \in 1 .. MaxRequests :
           \E data \in [time : Times, temperature : LatestTemps, trend : TrendValues] :
               contentLatestOk(n, data)
    \/ \E n \in 1 .. MaxRequests : contentLatestFailed(n)

(***************************************************************************)
(* fetchTemperatureHistory, Open-Meteo variant                             *)
(***************************************************************************)
\* times are whole hours; the hourly series of the response holds count
\* consecutive hours from first on, and the temperature of hour h
\* follows one of two profiles
HourlyTimes(first, count) == [i \in 1 .. count |-> first + i - 1]
HourlyTemperatures(first, count, profile) ==
    [i \in 1 .. count |-> 10 + (((first + i - 1) * profile) % 7)]

\* timestamps.findIndex(t => new Date(t) >= new Date(startTime)), counted
\* from 1; 0 stands for the -1 of findIndex
FindIndex(timestamps, startTime) ==
    IF \E i \in 1 .. Len(timestamps) : timestamps[i] >= startTime
    THEN CHOOSE i \in 1 .. Len(timestamps) :
             /\ timestamps[i] >= startTime
             /\ \A j \in 1 .. (i - 1) : timestamps[j] < startTime
    ELSE 0

\* s.slice(startIndex, startIndex + SliceLength), indices counted from 1
Slice(s, startIndex) ==
    SubSeq(s, startIndex,
           IF startIndex + SliceLength - 1 < Len(s)
           THEN startIndex + SliceLength - 1 ELSE Len(s))

\* lines 18-35: the value returned, or the error thrown, for an hourly
\* series read at the hour clock
HistoryOf(timestamps, temperatures, clock) ==
    LET startTime == clock - HistoryHours
        startIndex == FindIndex(timestamps, startTime)
    IN  IF startIndex = 0
        THEN [outcome |-> "threw",
              error |-> "No recent temperature data available",
              lastTimestamps |-> <<>>,
              lastTemperatures |-> <<>>]
        ELSE [outcome |-> "returned",
              error |-> "",
              lastTimestamps |-> Slice(timestamps, startIndex),
              lastTemperatures |-> Slice(temperatures, startIndex)]

\* the response is OK and carries the hourly series
fetchTemperatureHistoryOk(clock, first, count, profile) ==
    /\ hist' = [clock |-> clock,
                timestamps |-> HourlyTimes(first, count),
                temperatures |-> HourlyTemperatures(first, count, profile),
                call |-> HistoryOf(HourlyTimes(first, count),
                                   HourlyTemperatures(first, count, profile),
                                   clock)]
    /\ UNCHANGED notHistoryVars

\* the response is not OK, or it carries no hourly series: the error is
\* logged and rethrown
fetchTemperatureHistoryThrow(clock, error) ==
    /\ hist' = [clock |-> clock,
                timestamps |-> <<>>,
                temperatures |-> <<>>,
                call |-> [outcome |-> "threw",
                          error |-> error,
                          lastTimestamps |-> <<>>,
                          lastTemperatures |-> <<>>]]
    /\ UNCHANGED notHistoryVars

histInit ==
    hist = [clock |-> 0,
            timestamps |-> <<>>,
            temperatures |-> <<>>,
            call |-> [outcome |-> "none",
                      error |-> "",
                      lastTimestamps |-> <<>>,
                      lastTemperatures |-> <<>>]]

\* the page calls every 10 seconds: the hour of a call is the hour of the
\* call before it, or the next one
HoursOfNextCall == {h \in {hist.clock, hist.clock + 1} : h <= MaxClock}

HistoryNext ==
    \/ \E clock \in HoursOfNextCall, first \in 0 .. MaxFirst,
          count \in 0 .. MaxSeries, profile \in 1 .. 2 :
           fetchTemperatureHistoryOk(clock, first, count, profile)
    \/ \E clock \in HoursOfNextCall :
           \E error \in {"API Error", "Invalid API response: missing hourly data"} :
               fetchTemperatureHistoryThrow(clock, error)

(***************************************************************************)
(* WeatherDashboard                                                        *)
(***************************************************************************)
WeatherBodies == {"clear", "rain"}
WeatherErrors == {"HTTP error! status: 500", "Failed to fetch"}

\* what WeatherDashboard renders
wdView ==
    IF wd.loading /\ wd.weatherData = None THEN "spinner"
    ELSE IF wd.error # None THEN "error"
    ELSE IF wd.weatherData = None THEN "No weather data available"
    ELSE "weather"

\* fetchWeatherData up to its first await: loading and error are set and
\* request number started + 1 is sent
StartWeatherRequest(by) ==
    [wd EXCEPT !.loading = TRUE,
               !.error = None,
               !.started = @ + 1,
               !.pending = @ \cup {wd.started + 1},
               !.last = by]

\* the effect runs on mount, and the 5-minute interval fires whatever the
\* state of the component
wdIntervalTick ==
    /\ wd.started < MaxWeatherRequests
    /\ wd' = StartWeatherRequest("interval")
    /\ UNCHANGED notWeatherVars

\* the refresh button of the weather view, disabled while loading
wdClickRefresh ==
    /\ wd.started < MaxWeatherRequests
    /\ wd.started > 0
    /\ wdView = "weather"
    /\ ~wd.loading
    /\ wd' = StartWeatherRequest("refresh")
    /\ UNCHANGED notWeatherVars

\* the Retry button of the error view
wdClickRetry ==
    /\ wd.started < MaxWeatherRequests
    /\ wd.started > 0
    /\ wdView = "error"
    /\ wd' = StartWeatherRequest("retry")
    /\ UNCHANGED notWeatherVars

\* request n is answered with a body without error
wdResolved(n, data) ==
    /\ n \in wd.pending
    /\ wd' = [wd EXCEPT !.weatherData = Some(data),
                        !.from = n,
                        !.loading = FALSE,
                        !.pending = @ \ {n},
                        !.succeeded = @ \cup {n},
                        !.last = "resolved"]
    /\ UNCHANGED notWeatherVars

\* request n fails, or is answered with a status that is not OK or with a
\* body that holds an error
wdRejected(n, message) ==
    /\ n \in wd.pending
    /\ wd' = [wd EXCEPT !.error = Some(message),
                        !.loading = FALSE,
                        !.pending = @ \ {n},
                        !.last = "rejected"]
    /\ UNCHANGED notWeatherVars

wdInit ==
    wd = [weatherData |-> None,
          loading |-> TRUE,
          error |-> None,
          started |-> 0,
          pending |-> {},
          succeeded |-> {},
          from |-> 0,
          last |-> "none"]

WeatherNext ==
    \/ wdIntervalTick
    \/ wdClickRefresh
    \/ wdClickRetry
    \/ \E n \in 1 .. MaxWeatherRequests, data \in WeatherBodies : wdResolved(n, data)
    \/ \E n \in 1 .. MaxWeatherRequests, message \in WeatherErrors : wdRejected(n, message)

(***************************************************************************)
(* Life of the components with a delayed start and a retry                 *)
(***************************************************************************)
\* BotInsight, TemperatureStatsBox and TemperatureMap start their fetch from
\* a 500 ms timer set by the mount effect, whose cleanup clears that timer
RetryingComponents == {"BotInsight", "TemperatureStatsBox", "TemperatureMap"}

\* fetchInsight and fetchStats reach their catch block when the request
\* fails; fetchLocationData does not, its callee returns undefined instead
\* of throwing
RetriesOnFailure(component) == component \in {"BotInsight", "TemperatureStatsBox"}

\* a setter called or a request sent once the component is unmounted
AfterUnmount(c, updates, requests) ==
    IF c.alive THEN c.after
    ELSE [updates |-> c.after.updates + updates,
          requests |-> c.after.requests + requests]

\* the component is put on the page: the effect sets the initial timer
lcMount(component) ==
    /\ lc.component = "none"
    /\ lc' = [lc EXCEPT !.component = component,
                        !.alive = TRUE,
                        !.timer = "initial"]
    /\ UNCHANGED notLifeVars

\* clearTimeout(timer) of the cleanup: timer is the id of the initial timer
ClearTimers(timer) == IF timer = "initial" THEN "none" ELSE timer

\* the component is taken off the page: the cleanup of the effect runs
lcUnmount ==
    /\ lc.component # "none"
    /\ lc.alive
    /\ lc' = [lc EXCEPT !.alive = FALSE,
                        !.timer = ClearTimers(lc.timer)]
    /\ UNCHANGED notLifeVars

\* a timer fires: the fetch function sets loading and error and sends its
\* request
lcTimerFires ==
    /\ lc.timer # "none"
    /\ lc.started < MaxAttempts
    /\ lc' = [lc EXCEPT !.timer = "none",
                        !.started = @ + 1,
                        !.pending = TRUE,
                        !.after = AfterUnmount(lc, 1, 1)]
    /\ UNCHANGED notLifeVars

\* the request is answered: the result and loading are set
lcResolved ==
    /\ lc.pending
    /\ lc' = [lc EXCEPT !.pending = FALSE,
                        !.shows = "data",
                        !.after = AfterUnmount(lc, 1, 0)]
    /\ UNCHANGED notLifeVars

\* the request fails: the state is set and, in the catch block, the retry
\* timer
lcRejected ==
    /\ lc.pending
    /\ lc' = [lc EXCEPT !.pending = FALSE,
                        !.shows = IF RetriesOnFailure(lc.component)
                                  THEN "error" ELSE "no data",
                        !.timer = IF RetriesOnFailure(lc.component)
                                  THEN "retry" ELSE "none",
                        !.after = AfterUnmount(lc, 1, 0)]
    /\ UNCHANGED notLifeVars

lcInit ==
    lc = [component |-> "none",
          alive |-> FALSE,
          timer |-> "none",
          started |-> 0,
          pending |-> FALSE,
          shows |-> "loading",
          after |-> [updates |-> 0, requests |-> 0]]

LifeNext ==
    \/ \E component \in RetryingComponents : lcMount(component)
    \/ lcUnmount
    \/ lcTimerFires
    \/ lcResolved
    \/ lcRejected

(***************************************************************************)
(* AiIotDashboard at the grain of the four requests of a refresh           *)
(***************************************************************************)
Sections == {"aiInsights", "iotDevices", "iotHealth", "anomalies"}

\* how a request ends: an OK response, a response that is not OK, or fetch
\* (or response.json) throwing
RequestEnds == {"ok", "not ok", "threw"}

\* a fetcher that lets the exception of its request escape
FetcherRethrows(end) == IF end = "threw" THEN "rejected" ELSE "fulfilled"

\* the promise of fetchAiInsights, fetchIotDevices, fetchIotHealth and
\* fetchAnomalies: the try block holds the whole body and the catch block
\* only logs
FetcherSettles(end) == "fulfilled"

\* the requests of refresh r that have not ended
PendingOf(pending, r) == {q \in pending : q[1] = r}

\* loadData up to the await of Promise.all: the four fetchers have sent
\* their requests; called on mount and by the 30-second interval
aiLoadData ==
    /\ ai.started < MaxRequests
    /\ ai' = [ai EXCEPT !.loading = TRUE,
                        !.error = None,
                        !.started = @ + 1,
                        !.awaiting = @ \cup {ai.started + 1},
                        !.pending = @ \cup {<<ai.started + 1, s>> : s \in Sections},
                        !.last = "sent"]
    /\ UNCHANGED notRefreshVars

\* the request of section s of refresh r ends and its fetcher settles; the
\* section is set to the body of an OK response, which is named by r.
\* Promise.all rejects with the first fetcher that rejects and is fulfilled
\* when the last of the four is; loadData then sets error in the first case
\* and loading in both
aiFetcherSettles(r, s, end) ==
    /\ <<r, s>> \in ai.pending
    /\ LET promise == FetcherSettles(end)
           rest == PendingOf(ai.pending, r) \ {<<r, s>>}
           rejects == r \in ai.awaiting /\ promise = "rejected"
           fulfils == r \in ai.awaiting /\ promise = "fulfilled" /\ rest = {}
       IN  ai' = [ai EXCEPT !.data = IF end = "ok" THEN [@ EXCEPT ![s] = r] ELSE @,
                            !.pending = @ \ {<<r, s>>},
                            !.awaiting = IF rejects \/ fulfils THEN @ \ {r} ELSE @,
                            !.error = IF rejects THEN Some("Failed to fetch") ELSE @,
                            !.loading = IF rejects \/ fulfils THEN FALSE ELSE @,
                            !.last = end]
    /\ UNCHANGED notRefreshVars

\* which of its three renderings AiIotDashboard returns
aiView ==
    IF ai.loading THEN "spinner"
    ELSE IF ai.error # None THEN "error"
    ELSE "dashboard"

\* a section is 0 while it is null
aiInit ==
    ai = [data |-> [s \in Sections |-> 0],
          loading |-> TRUE,
          error |-> None,
          started |-> 0,
          awaiting |-> {},
          pending |-> {},
          last |-> "none"]

RefreshNext ==
    \/ aiLoadData
    \/ \E r \in 1 .. MaxRequests, s \in Sections, end \in RequestEnds :
           aiFetcherSettles(r, s, end)

(***************************************************************************)
(* CorsTest                                                                *)
(***************************************************************************)
TestErrors == {"HTTP 500: INTERNAL SERVER ERROR", "Failed to fetch"}

\* both buttons without their disabled attribute
ButtonAlwaysEnabled(loading) == TRUE

\* disabled={loading} of both buttons
ButtonEnabled(loading) == ~loading

\* testCors and testWeatherApi up to their await: the three setters, and
\* the request to the endpoint is sent as test number started + 1
StartTest(endpoint) ==
    [ct EXCEPT !.loading = TRUE,
               !.error = None,
               !.testResult = None,
               !.started = @ + 1,
               !.pending = @ \cup {[n |-> ct.started + 1, endpoint |-> endpoint]},
               !.last = "sent"]

\* a click on 'Test CORS Endpoint'
testCors ==
    /\ ct.started < MaxTests
    /\ ButtonEnabled(ct.loading)
    /\ ct' = StartTest("/api/test-cors")
    /\ UNCHANGED notCorsVars

\* a click on 'Test Weather API'
testWeatherApi ==
    /\ ct.started < MaxTests
    /\ ButtonEnabled(ct.loading)
    /\ ct' = StartTest("/api/weather")
    /\ UNCHANGED notCorsVars

\* the response of test q is OK: its body, named by the endpoint and the
\* number of the test, is the result; settled lists the tests that have
\* ended and how
ctResolved(q) ==
    /\ q \in ct.pending
    /\ ct' = [ct EXCEPT !.testResult = Some(q),
                        !.loading = FALSE,
                        !.pending = @ \ {q},
                        !.settled = Append(@, [endpoint |-> q.endpoint, outcome |-> "ok"]),
                        !.last = "resolved"]
    /\ UNCHANGED notCorsVars

\* the response of test q is not OK, or fetch or response.json threw
ctRejected(q, message) ==
    /\ q \in ct.pending
    /\ ct' = [ct EXCEPT !.error = Some(message),
                        !.loading = FALSE,
                        !.pending = @ \ {q},
                        !.settled = Append(@, [endpoint |-> q.endpoint, outcome |-> message]),
                        !.last = "rejected"]
    /\ UNCHANGED notCorsVars

\* the panels under the buttons
ctPanels ==
    [error |-> ct.error # None, success |-> ct.testResult # None]

ctInit ==
    ct = [testResult |-> None,
          loading |-> FALSE,
          error |-> None,
          started |-> 0,
          pending |-> {},
          settled |-> <<>>,
          last |-> "none"]

TestRequests ==
    [n : 1 .. MaxTests, endpoint : {"/api/test-cors", "/api/weather"}]

CorsNext ==
    \/ testCors
    \/ testWeatherApi
    \/ \E q \in TestRequests : ctResolved(q)
    \/ \E q \in TestRequests, message \in TestErrors : ctRejected(q, message)

(***************************************************************************)
(* The pages before anything has happened                                  *)
(***************************************************************************)
PageInit ==
    /\ contentInit
    /\ histInit
    /\ wdInit
    /\ lcInit
    /\ ctInit
    /\ aiInit

(***************************************************************************)
(* Claims about the trend of the latest temperature                        *)
(***************************************************************************)
Abs(x) == IF x < 0 THEN 0 - x ELSE x

Returned == latestCall.outcome = "returned"

\* C1 as stated: a call that finds a previous temperature returns stable
\* exactly when |current - previous| < 0.05 C, up (rising) when
\* current - previous >= 0.05 C and down (falling) when previous - current
\* >= 0.05 C.
C1_TrendWithEpsilon ==
    (Returned /\ latestCall.prev # None) =>
        LET r == latestCall.result[1]
            d == r.temperature - latestCall.prev[1]
        IN  /\ (r.trend = "stable") <=> (Abs(d) < 5)
            /\ (r.trend = "up") <=> (d >= 5)
            /\ (r.trend = "down") <=> (0 - d >= 5)

\* C1 amended: the trend is decided by exact comparison, with no epsilon
\* band, of the current temperature with latestTemperature, which is the
\* remembered previous temperature when that is defined and non-zero and the
\* current temperature otherwise: stable exactly when they are equal, up when
\* the current one is greater, down when it is smaller; (5.00, 5.00) gives
\* stable, (5.10, 5.00) gives up and (4.90, 5.00) gives down.
C1_TrendExact ==
    /\ Returned =>
        LET r == latestCall.result[1]
            p == latestCall.prev
            latestTemperature == IF p = None \/ p = Some(0)
                                 THEN r.temperature ELSE p[1]
        IN  /\ (r.trend = "stable") <=> (r.temperature = latestTemperature)
            /\ (r.trend = "up") <=> (r.temperature > latestTemperature)
            /\ (r.trend = "down") <=> (r.temperature < latestTemperature)
    /\ LatestResult(Some(500), 1, 500).trend = "stable"
    /\ LatestResult(Some(500), 1, 510).trend = "up"
    /\ LatestResult(Some(500), 1, 490).trend = "down"

\* a call that found 5.00 C remembered and read 5.03 C: inside the claimed
\* epsilon band, and classified up
C1_Witness ==
    /\ Returned
    /\ latestCall.prev = Some(500)
    /\ latestCall.result[1].temperature = 503
    /\ latestCall.result[1].trend = "up"

\* C2 as stated: nothing is remembered between calls, so in every state a
\* call returns what it would return in a fresh process, whatever calls came
\* before.
C2_NothingRemembered ==
    \A time \in Times, temperature \in Temps :
        LatestResult(previousTemperature, time, temperature)
            = LatestResult(None, time, temperature)

ToSet(s) == {s[i] : i \in 1 .. Len(s)}

IsIncreasing(s) == \A i \in 1 .. Len(s) - 1 : s[i] < s[i + 1]

\* the calendar dates of the window ending on day end that have a reading
DatesWithReadings(lg, end) ==
    {d \in Days : InWindow(d, end) /\ \E i \in 1 .. Len(lg) : lg[i].day = d}

\* the temperatures of the window ending on day end, scanned from the log
RawTemps(lg, end) == TempsOf(ReadingsInWindow(lg, end))

IsLeast(v, s) == (\A i \in 1 .. Len(s) : v <= s[i]) /\ (\E i \in 1 .. Len(s) : v = s[i])

IsGreatest(v, s) == (\A i \in 1 .. Len(s) : v >= s[i]) /\ (\E i \in 1 .. Len(s) : v = s[i])

\* days lists exactly the dates of the window with a reading, once each and
\* in date order, and the three per-day lists are as long as days
DaysAsClaimed(data, lg, end) ==
    /\ ToSet(data.days[1]) = DatesWithReadings(lg, end)
    /\ IsIncreasing(data.days[1])
    /\ Len(data.min_temps[1]) = Len(data.days[1])
    /\ Len(data.max_temps[1]) = Len(data.days[1])
    /\ Len(data.avg_temps[1]) = Len(data.days[1])

\* C4: the days of get_weekly_stats are exactly the calendar dates of the
\* window that have at least one reading, one entry per such date, and
\* min_temps, max_temps and avg_temps are as long as days; WeeklyStats charts
\* these days and values as received.
C4_DaysAreDatesWithReadings ==
    /\ DaysAsClaimed(WeeklyStatsPayload(log, now), log, now)
    /\ ws.weeklyStats # None =>
           /\ DaysAsClaimed(ws.weeklyStats[1], ws.asOf.log, ws.asOf.today)
           /\ ws.chartData.labels = ws.weeklyStats[1].days[1]
           /\ Len(ws.chartData.min) = Len(ws.chartData.labels)
           /\ Len(ws.chartData.max) = Len(ws.chartData.labels)
           /\ Len(ws.chartData.avg) = Len(ws.chartData.labels)

\* WeeklyStats has charted a window in which one day has readings and
\* another day has none, from a log that also holds a reading older than the
\* window
C4_Witness ==
    /\ ws.weeklyStats # None
    /\ ws.chartData.labels # <<>>
    /\ \E d \in Days : InWindow(d, ws.asOf.today) /\ d \notin ToSet(ws.chartData.labels)
    /\ \E i \in 1 .. Len(ws.asOf.log) : ~InWindow(ws.asOf.log[i].day, ws.asOf.today)

C6_SummaryFromDailyAggregates ==
    /\ ws.weeklyStats # None =>
           LET data == ws.weeklyStats[1]
               raw == RawTemps(ws.asOf.log, ws.asOf.today)
               aggs == DailyAggregates(ws.asOf.log, ws.asOf.today)
           IN  /\ data.total_readings = SeqSum(Column(aggs, "reading_count"))
               /\ data.total_readings = Len(raw)
               /\ IF data.days[1] = <<>>
                  THEN /\ MinTempValue(ws.weeklyStats) = None
                       /\ MaxTempValue(ws.weeklyStats) = None
                  ELSE /\ MinTempValue(ws.weeklyStats) # None
                       /\ MaxTempValue(ws.weeklyStats) # None
                       /\ IsLeast(MinTempValue(ws.weeklyStats)[1], data.min_temps[1])
                       /\ IsGreatest(MaxTempValue(ws.weeklyStats)[1], data.max_temps[1])
                       /\ IsLeast(MinTempValue(ws.weeklyStats)[1], raw)
                       /\ IsGreatest(MaxTempValue(ws.weeklyStats)[1], raw)
    /\ en.weeklyData # None =>
           LET data == en.weeklyData[1]
               raw == RawTemps(en.asOf.log, en.asOf.today)
               aggs == DailyAggregates(en.asOf.log, en.asOf.today)
           IN  IF data.dates = <<>>
               THEN data.overallStats = None
               ELSE /\ data.overallStats # None
                    /\ IsLeast(data.overallStats[1].overall_min, data.minTemps)
                    /\ IsGreatest(data.overallStats[1].overall_max, data.maxTemps)
                    /\ data.overallStats[1].total_readings
                           = SeqSum(Column(aggs, "reading_count"))
                    /\ data.overallStats[1].total_readings = Len(raw)

\* WeeklyStats shows a summary of two days whose first day is not the
\* coldest
C6_Witness ==
    /\ ws.weeklyStats # None
    /\ Len(ws.weeklyStats[1].min_temps[1]) = 2
    /\ ws.weeklyStats[1].min_temps[1][1] > ws.weeklyStats[1].min_temps[1][2]
    /\ MinTempValue(ws.weeklyStats) = Some(ws.weeklyStats[1].min_temps[1][2])

IntFrac(n) == [num |-> n, den |-> 1]

\* C9: every daily aggregate has min <= avg <= max and a positive reading
\* count, and belongs to a date of the window that has readings; the
\* statistics TemperatureStatsBox takes from the per-day lists keep
\* min <= avg <= max.
C9_DailyAggregateOrdered ==
    /\ LET aggs == DailyAggregates(log, now)
       IN  /\ \A i \in 1 .. Len(aggs) :
                  /\ FracLeq(IntFrac(aggs[i].min), aggs[i].avg)
                  /\ FracLeq(aggs[i].avg, IntFrac(aggs[i].max))
                  /\ aggs[i].reading_count > 0
                  /\ aggs[i].date \in DatesWithReadings(log, now)
           /\ \A d \in Days \ DatesWithReadings(log, now) :
                  \A i \in 1 .. Len(aggs) : aggs[i].date # d
    /\ sb.stats # None =>
           /\ FracLeq(IntFrac(sb.stats[1].min), sb.stats[1].avg)
           /\ FracLeq(sb.stats[1].avg, IntFrac(sb.stats[1].max))

\* TemperatureStatsBox shows the statistics of a response with two days,
\* the last day having several different readings
C9_Witness ==
    /\ sb.stats # None
    /\ sb.stats[1].min < sb.stats[1].max
    /\ Len(DailyAggregates(sb.asOf.log, sb.asOf.today)) = 2

\* overall_avg * total_reading_count = sum over days of avg_d * count_d
\* = sum of the readings of the window
WeightedMeanAsClaimed(stats, aggs, raw) ==
    /\ stats.overall_avg.num * stats.total_readings
           = SeqSum(raw) * stats.overall_avg.den
    /\ SeqSum([i \in 1 .. Len(aggs) |->
                  (aggs[i].avg.num * aggs[i].reading_count) \div aggs[i].avg.den])
           = SeqSum(raw)
    /\ \A i \in 1 .. Len(aggs) :
           (aggs[i].avg.num * aggs[i].reading_count) % aggs[i].avg.den = 0

\* C10: the weekly overall average computed from the daily aggregates is the
\* count-weighted mean of the per-day averages: overall_avg times the total
\* reading count equals the sum over the days of avg_d * reading_count_d,
\* which equals the sum of all readings of the window.
C10_OverallAvgIsWeightedMean ==
    /\ LET aggs == DailyAggregates(log, now)
       IN  aggs # <<>> =>
               WeightedMeanAsClaimed(OverallStats(aggs), aggs, RawTemps(log, now))
    /\ (en.weeklyData # None /\ en.weeklyData[1].dates # <<>>) =>
           WeightedMeanAsClaimed(en.weeklyData[1].overallStats[1],
                                 DailyAggregates(en.asOf.log, en.asOf.today),
                                 RawTemps(en.asOf.log, en.asOf.today))

\* WeeklyStatsEnhanced holds the overall statistics of two days with
\* different reading counts, where the plain mean of the per-day averages
\* differs from the overall average
C10_Witness ==
    /\ en.weeklyData # None
    /\ Len(en.weeklyData[1].dates) = 2
    /\ LET aggs == DailyAggregates(en.asOf.log, en.asOf.today)
       IN  /\ aggs[1].reading_count # aggs[2].reading_count
           /\ MeanOfDailyAverages(aggs) # en.weeklyData[1].overallStats[1].overall_avg

(***************************************************************************)
(* Claims about the anomaly detector                                       *)
(***************************************************************************)
\* the positions in the analysis window of the readings threshold k flags
FlaggedPositions(lg, end, k) ==
    LET analysis == AnalysisReadings(lg, end)
        baseline == BaselineTemps(lg, end)
    IN  {i \in 1 .. Len(analysis) : IsAnomalous(analysis[i].temp, baseline, k)}

\* C7: for a fixed log, analysis window and baseline and thresholds
\* t1 <= t2, the readings flagged with t2 are among those flagged with t1, so
\* the anomaly count with t2 is at most the count with t1.
C7_AnomaliesMonotonic ==
    /\ \A k1, k2 \in Thresholds :
           k1 <= k2 =>
               /\ FlaggedPositions(log, now, k2) \subseteq FlaggedPositions(log, now, k1)
               /\ Cardinality(FlaggedPositions(log, now, k2))
                      <= Cardinality(FlaggedPositions(log, now, k1))
    /\ \A k \in Thresholds :
           GetAnomalies(log, now, k).anomalies_detected
               = Cardinality(FlaggedPositions(log, now, k))
    /\ detection.result # None =>
           \A k \in Thresholds :
               /\ k >= detection.threshold =>
                      /\ GetAnomalies(log, now, k).anomalies_detected
                             <= detection.result[1].anomalies_detected
                      /\ ToSet(GetAnomalies(log, now, k).flagged)
                             \subseteq ToSet(detection.result[1].flagged)
               /\ k <= detection.threshold =>
                      GetAnomalies(log, now, k).anomalies_detected
                          >= detection.result[1].anomalies_detected

\* a detection has flagged a reading that a higher threshold does not flag
C7_Witness ==
    /\ detection.result # None
    /\ detection.result[1].anomalies_detected > 0
    /\ \E k \in Thresholds :
           /\ k > detection.threshold
           /\ GetAnomalies(log, now, k).anomalies_detected
                  < detection.result[1].anomalies_detected

AllIdentical(s) == s # <<>> /\ \A i \in 1 .. Len(s) : s[i] = s[1]

\* C8: when all readings of the baseline window are identical, get_anomalies
\* reports anomalies_detected = 0 and an empty flagged list for every
\* threshold and every analysis window, and its outcome is a result, not an
\* error.
C8_IdenticalBaselineNoAnomalies ==
    /\ AllIdentical(BaselineTemps(log, now)) =>
           \A k \in Thresholds :
               /\ GetAnomalies(log, now, k).outcome = "ok"
               /\ GetAnomalies(log, now, k).anomalies_detected = 0
               /\ GetAnomalies(log, now, k).flagged = <<>>
    /\ (/\ detection.result # None
        /\ AllIdentical(BaselineTemps(log, now))) =>
           /\ detection.result[1].outcome = "ok"
           /\ detection.result[1].anomalies_detected = 0
           /\ detection.result[1].flagged = <<>>

\* a detection ran over a baseline of two identical readings and an
\* analysis window holding a different temperature
C8_Witness ==
    /\ detection.result # None
    /\ LET baseline == BaselineTemps(log, now)
           analysis == AnalysisReadings(log, now)
       IN  /\ Len(baseline) >= 2
           /\ AllIdentical(baseline)
           /\ \E i \in 1 .. Len(analysis) : analysis[i].temp # baseline[1]
    /\ detection.result[1].anomalies_detected = 0

(***************************************************************************)
(* Claims about the prediction                                             *)
(***************************************************************************)
\* C11 as stated: predict over a trailing window with fewer readings than
\* the minimum sample count returns an insufficient-data result without a
\* predicted value, and TemperaturePrediction, once a request that
\* delivered this result has settled, shows it as an empty state and not
\* as an error.
C11_InsufficientShownAsEmpty ==
    /\ Len(PredictSamples(log, now)) < MinSamples =>
           /\ Predict(log, now).status = "insufficient-data"
           /\ Predict(log, now).predicted_value = None
    /\ (tp.last = "insufficient-data") => tpView \in {"loading", "empty"}

(***************************************************************************)
(* Claims about the device health                                          *)
(***************************************************************************)
\* the dashboard shows a health response computed from a registry with at
\* least one sensor
HealthShown == dash.iotHealth # None /\ dash.asOf # <<>>

OnlineCount(reg) == Cardinality({i \in 1 .. Len(reg) : reg[i].online})

Sensor(on, level) == [online |-> on, battery_level |-> level]

\* C12: for every registry with at least one sensor, the connectivity score
\* the dashboard shows is 100 * online / registered, the shown online count
\* is at most the shown total, and the score lies in 0 .. 100; 2 of 4
\* sensors online give 50.
C12_ConnectivityIsPercentOnline ==
    /\ HealthShown =>
           LET h == dash.iotHealth[1]
               reg == dash.asOf
               score == ConnectivityTile(h)
           IN  /\ score # None
               /\ score[1].num * Len(reg) = 100 * OnlineCount(reg) * score[1].den
               /\ SensorsTile(h).online = OnlineCount(reg)
               /\ SensorsTile(h).total = Len(reg)
               /\ SensorsTile(h).online <= SensorsTile(h).total
               /\ FracLeq(Frac(0, 1), score[1])
               /\ FracLeq(score[1], Frac(100, 1))
    /\ ConnectivityScore(<<Sensor(TRUE, 100), Sensor(FALSE, 100),
                           Sensor(TRUE, 50), Sensor(FALSE, 50)>>) = Some(Frac(50, 1))

\* the dashboard shows the health of two sensors, one of them online
C12_Witness ==
    /\ HealthShown
    /\ Len(dash.asOf) = 2
    /\ OnlineCount(dash.asOf) = 1
    /\ ConnectivityTile(dash.iotHealth[1]) = Some(Frac(50, 1))

IsLowestOnline(reg, m) ==
    /\ \E i \in 1 .. Len(reg) : reg[i].online /\ reg[i].battery_level = m
    /\ \A i \in 1 .. Len(reg) : reg[i].online => m <= reg[i].battery_level

HasCriticalAlert(alerts, i) ==
    \E k \in 1 .. Len(alerts) :
        alerts[k].sensor_id = i /\ alerts[k].severity = "critical"

\* C13: the battery score the dashboard shows is the linear scale of the
\* lowest battery level among the online sensors, 100 at full and 0 at or
\* below the critical floor of 5 %, and every sensor whose battery level is
\* below the floor has an alert of severity critical; an online sensor at
\* 3 % gives battery score 0 and a critical alert, and lowest levels of 6,
\* 24, 50 and 81 % lie on the line from 0 at 5 % to 100 at 100 %.
C13_BatteryScoreAndCriticalAlert ==
    /\ HealthShown =>
           LET h == dash.iotHealth[1]
               reg == dash.asOf
           IN  /\ \A m \in BatteryLevels :
                      IsLowestOnline(reg, m) =>
                          /\ BatteryTile(h) # None
                          /\ m <= 5 => BatteryTile(h)[1] = Frac(0, 1)
                          /\ m = 100 => BatteryTile(h)[1] = Frac(100, 1)
                          /\ m >= 5 => BatteryTile(h)[1].num * 95
                                           = 100 * (m - 5) * BatteryTile(h)[1].den
               /\ \A i \in 1 .. Len(reg) :
                      reg[i].battery_level < 5 => HasCriticalAlert(ShownAlerts, i)
    /\ LET h == GetDeviceHealth(<<Sensor(TRUE, 100), Sensor(TRUE, 3)>>)
       IN  /\ h.battery_score = Some(Frac(0, 1))
           /\ HasCriticalAlert(h.alerts, 2)
    /\ \A m \in {6, 24, 50, 81} :
           LET score == GetDeviceHealth(<<Sensor(TRUE, m), Sensor(FALSE, 3)>>).battery_score
           IN  score # None /\ score[1].num * 95 = 100 * (m - 5) * score[1].den

\* the dashboard shows the health of a registry whose lowest online battery
\* is at 3 %: score 0 and a critical alert for that sensor
C13_Witness ==
    /\ HealthShown
    /\ IsLowestOnline(dash.asOf, 3)
    /\ BatteryTile(dash.iotHealth[1]) = Some(Frac(0, 1))
    /\ \E i \in 1 .. Len(dash.asOf) :
           /\ dash.asOf[i].online
           /\ dash.asOf[i].battery_level = 3
           /\ HasCriticalAlert(ShownAlerts, i)

\* alert a is warranted by the status of its sensor in reg
Warranted(reg, a) ==
    /\ a.sensor_id \in 1 .. Len(reg)
    /\ LET status == reg[a.sensor_id]
       IN  \/ a.message = "offline" /\ ~status.online
           \/ a.message = "battery critical" /\ status.battery_level < 5
           \/ a.message = "battery low"
                  /\ status.battery_level >= 5 /\ status.battery_level < 20

HasAlert(alerts, i, message) ==
    \E k \in 1 .. Len(alerts) : alerts[k].sensor_id = i /\ alerts[k].message = message

\* C14: the alerts the dashboard shows are exactly those warranted by the
\* device status at the latest health response: each shown alert is
\* warranted by that status, each warranted alert is shown once, and an
\* alert of an earlier response whose condition no longer holds is absent.
C14_AlertsAreFresh ==
    dash.iotHealth # None =>
        LET reg == dash.asOf
        IN  /\ \A k \in 1 .. Len(ShownAlerts) : Warranted(reg, ShownAlerts[k])
            /\ \A k, l \in 1 .. Len(ShownAlerts) :
                   ShownAlerts[k] = ShownAlerts[l] => k = l
            /\ \A i \in 1 .. Len(reg) :
                   /\ ~reg[i].online => HasAlert(ShownAlerts, i, "offline")
                   /\ reg[i].battery_level < 5
                          => HasAlert(ShownAlerts, i, "battery critical")
                   /\ (reg[i].battery_level >= 5 /\ reg[i].battery_level < 20)
                          => HasAlert(ShownAlerts, i, "battery low")

\* the latest response took away an alert that was shown before it, and
\* the dashboard now shows no alert for a registry with a sensor
C14_Witness ==
    /\ HealthShown
    /\ dash.dropped
    /\ ShownAlerts = <<>>

(***************************************************************************)
(* Claims about the box plot                                               *)
(***************************************************************************)
\* the temperatures read on day d, scanned from the log
RawTempsOn(lg, d) == TempsOf(ReadingsOn(lg, d))

BoxplotDates(lg, end) ==
    {d \in Days : d > end - BoxplotDays /\ d <= end
                  /\ \E i \in 1 .. Len(lg) : lg[i].day = d}

FiveAscending(y) == \A i \in 1 .. 4 : FracLeq(y[i], y[i + 1])

ExampleLog ==
    <<[day |-> 1, temp |-> 10], [day |-> 1, temp |-> 14], [day |-> 2, temp |-> 20]>>

\* C15: the plot has one box for every day of the window with a reading,
\* and each box has min <= q1 <= median <= q3 <= max with min the smallest
\* and max the largest reading of its day; a day with the single reading v
\* has all five equal to v; readings 10 and 14 on one day give min 10,
\* max 14 and median 12, and a single reading 20 gives five times 20.
C15_BoxIsOrdered ==
    /\ bpView = "plot" =>
           LET lg == bp.asOf.log
           IN  /\ {PlotData[i].name : i \in 1 .. Len(PlotData)}
                      = BoxplotDates(lg, bp.asOf.today)
               /\ IsIncreasing([i \in 1 .. Len(PlotData) |-> PlotData[i].name])
               /\ \A i \in 1 .. Len(PlotData) :
                      LET y == PlotData[i].y
                          raw == RawTempsOn(lg, PlotData[i].name)
                      IN  /\ FiveAscending(y)
                          /\ y[1].den = 1 /\ IsLeast(y[1].num, raw)
                          /\ y[5].den = 1 /\ IsGreatest(y[5].num, raw)
                          /\ Len(raw) = 1 => \A k \in 1 .. 5 : y[k] = IntFrac(raw[1])
    /\ LET day1 == BoxOf(ExampleLog, 1)
           day2 == BoxOf(ExampleLog, 2)
       IN  /\ day1.min = IntFrac(10) /\ day1.max = IntFrac(14)
           /\ day1.median = IntFrac(12)
           /\ \A k \in 1 .. 5 : PlotTrace(day2).y[k] = IntFrac(20)

\* the plot shows a day with several readings whose quartiles differ and a
\* day with a single reading
C15_Witness ==
    /\ bpView = "plot"
    /\ \E i, j \in 1 .. Len(PlotData) :
           /\ Len(RawTempsOn(bp.asOf.log, PlotData[i].name)) >= 2
           /\ PlotData[i].y[1] # PlotData[i].y[5]
           /\ PlotData[i].y[2] # PlotData[i].y[3]
           /\ Len(RawTempsOn(bp.asOf.log, PlotData[j].name)) = 1

(***************************************************************************)
(* Claims about the Reading Store                                          *)
(***************************************************************************)
QueryReturned == query.phase = "returned"

\* the reading r as a query returns it, with all its fields
AsReturned(r) ==
    [timestamp |-> Some(r.timestamp), temperature |-> Some(r.temperature)]

InRange(r, start, end) == r.timestamp >= start /\ r.timestamp < end

CountIn(x, seq) == Cardinality({i \in 1 .. Len(seq) : seq[i] = x})

\* C16: a query that returns after appends have succeeded returns every
\* one of their readings whose timestamp lies in the queried range, as often
\* as it was appended: no successful append is hidden from the query.
C16_AppendVisibleToQuery ==
    QueryReturned =>
        \A i \in 1 .. Len(st.acked) :
            InRange(st.acked[i], query.start, query.end) =>
                CountIn(AsReturned(st.acked[i]), query.result)
                    >= CountIn(st.acked[i], st.acked)

\* a query returned the reading of the latest successful append, and
\* another reading appended before it
C16_Witness ==
    /\ QueryReturned
    /\ Len(st.acked) >= 2
    /\ InSeq(AsReturned(st.acked[Len(st.acked)]), query.result)
    /\ Len(query.result) >= 2

IsWhole(x) == x.timestamp # None /\ x.temperature # None

\* result holds exactly the readings of rs in the range, in time order
IsRangeOf(result, rs, start, end) ==
    /\ Len(result) = Cardinality({i \in 1 .. Len(rs) : InRange(rs[i], start, end)})
    /\ \A i \in 1 .. Len(rs) :
           InRange(rs[i], start, end) =>
               CountIn(AsReturned(rs[i]), result) = CountIn(rs[i], rs)
    /\ \A k \in 1 .. Len(result) - 1 :
           result[k].timestamp[1] <= result[k + 1].timestamp[1]

\* C17: every query result is the result of the query at some point of the
\* serial order of the appends, that is the readings in the range among the
\* first n appended ones for some n, and each returned reading has all its
\* fields: none is half-written.
C17_QuerySerializable ==
    QueryReturned =>
        /\ \A k \in 1 .. Len(query.result) : IsWhole(query.result[k])
        /\ \E n \in 0 .. Len(st.acked) :
               IsRangeOf(query.result, SubSeq(st.acked, 1, n), query.start, query.end)

\* a query returned one of two appended readings, the other one lying
\* outside its range
C17_Witness ==
    /\ QueryReturned
    /\ Len(st.acked) = 2
    /\ Len(query.result) = 1
    /\ IsWhole(query.result[1])

\* C18: append fails with ValidationError exactly when the temperature is
\* below -90 or above 60, or the timestamp is more than the tolerance of 1
\* ahead of the clock; a failed append leaves the store unchanged, an
\* append within both limits puts its reading into the store, and a query
\* returns only readings of appends that succeeded.
C18_AppendValidates ==
    /\ appendCall.outcome # "none" =>
           LET r == appendCall.reading[1]
               within == /\ r.temperature >= 0 - 90
                         /\ r.temperature <= 60
                         /\ r.timestamp <= appendCall.at + 1
           IN  /\ (appendCall.outcome = "ValidationError") <=> ~within
               /\ appendCall.outcome = "ValidationError" =>
                      /\ st.slots = appendCall.before
                      /\ Len(st.acked) + (IF st.writing THEN 1 ELSE 0) = Len(st.slots)
               /\ appendCall.outcome = "ok" =>
                      /\ st.slots[Len(st.slots)] = AsReturned(r)
                      /\ st.acked[Len(st.acked)] = r
    /\ QueryReturned =>
           \A k \in 1 .. Len(query.result) :
               \E i \in 1 .. Len(st.acked) : query.result[k] = AsReturned(st.acked[i])

\* an append of a plausible temperature stamped beyond the tolerance has
\* just failed on a store that holds a reading
C18_Witness ==
    /\ appendCall.outcome = "ValidationError"
    /\ appendCall.reading[1].temperature = 60
    /\ appendCall.reading[1].timestamp = appendCall.at + 2
    /\ Len(st.acked) >= 1
    /\ st.slots = appendCall.before

(***************************************************************************)
(* Claims about the clothing suggestion                                    *)
(***************************************************************************)
\* the title t is given within the documented range from..to (whole
\* degrees, both ends allowed)
TitleWithin(title, from, to) ==
    cs.suggestion = Some(title) =>
        cs.temperature.tenths >= 10 * from /\ cs.temperature.tenths <= 10 * to

\* C19 as stated: every temperature gets one category, and the category
\* follows the documented ranges (Very Cold below 5, Cold 5-10, Cool 10-15,
\* Mild 15-20, Pleasant 20-25, Warm 25-30, Hot above 30); a temperature
\* that is not available (null or undefined) gets no suggestion and the
\* component shows its waiting text.
C19_DocumentedRanges ==
    /\ cs.temperature.kind = "number" =>
           /\ cs.suggestion # None
           /\ cs.suggestion = Some("Very Cold Weather") => cs.temperature.tenths < 50
           /\ TitleWithin("Cold Weather", 5, 10)
           /\ TitleWithin("Cool Weather", 10, 15)
           /\ TitleWithin("Mild Weather", 15, 20)
           /\ TitleWithin("Pleasant Weather", 20, 25)
           /\ TitleWithin("Warm Weather", 25, 30)
           /\ cs.suggestion = Some("Hot Weather") => cs.temperature.tenths > 300
    /\ cs.temperature.kind # "number" =>
           /\ cs.suggestion = None
           /\ csView = "Waiting for temperature data..."

(***************************************************************************)
(* Claims about TemperatureMap                                             *)
(***************************************************************************)
\* C20 as stated: whenever the latest-temperature request of TemperatureMap
\* has failed (network error or non-OK response), a retry is scheduled; and
\* hence, if from some point on the backend answers every request
\* successfully, the component eventually displays the location name.
C20_RetryUntilLocated ==
    /\ [](tm.last = "failed" => tm.timer = "retry")
    /\ (<>[]backendUp) => <>(tmView = "location")

(***************************************************************************)
(* Claims about the temperature card of the dashboard page                 *)
(***************************************************************************)
\* C21: for every trend value a latest-temperature response delivers, the
\* card shows Rising exactly for up, Falling exactly for down and no
\* indicator for stable, both for each value by itself and in every state
\* of the page whose trend stems from a response.
C21_IndicatorFollowsTrend ==
    /\ \A t \in TrendValues :
           /\ TrendIndicator(Some(t)) = "Rising" <=> t = "up"
           /\ TrendIndicator(Some(t)) = "Falling" <=> t = "down"
           /\ TrendIndicator(Some(t)) = "none" <=> t = "stable"
    /\ content.from.trend > 0 =>
           /\ content.trend # None /\ content.trend[1] \in TrendValues
           /\ contentCard.indicator = "Rising" <=> content.trend = Some("up")
           /\ contentCard.indicator = "Falling" <=> content.trend = Some("down")
           /\ contentCard.indicator = "none" <=> content.trend = Some("stable")

C21_Witness ==
    /\ content.from.trend > 0
    /\ content.trend = Some("stable")
    /\ contentCard.indicator = "none"

\* C26 as stated: while time, temperature and trend of the page are all
\* still null, the card shows the placeholder '--', no trend indicator and
\* neither the normal nor the not-normal verdict.
C26_AbsenceShownAsAbsence ==
    (content.time = None /\ content.temperature = None /\ content.trend = None) =>
        /\ contentCard.temperature.kind = "--"
        /\ contentCard.indicator = "none"
        /\ contentCard.verdict \notin {"Normal Temperature", "Not normal!"}

\* C28: the displayed time, temperature and trend always stem from the same
\* response (or all three are still the initial null), and a step in which
\* a request fails changes none of the three.
C28_LatestUpdatedTogether ==
    /\ [](/\ content.from.time = content.from.temperature
          /\ content.from.temperature = content.from.trend
          /\ content.from.time = 0 =>
                 content.time = None /\ content.temperature = None
                                     /\ content.trend = None)
    /\ [][content'.last = "failed" =>
              /\ content'.time = content.time
              /\ content'.temperature = content.temperature
              /\ content'.trend = content.trend
              /\ content'.from = content.from]_vars

\* both requests were in flight together; the display stems from the first
\* of them and the other one has failed
C28_Witness ==
    /\ content.started = 2
    /\ content.pending = {}
    /\ content.from.time = 1
    /\ content.last = "failed"

(***************************************************************************)
(* Claims about the history client                                         *)
(***************************************************************************)
\* the last call got an hourly series
GotSeries == hist.call.error \notin {"API Error", "Invalid API response: missing hourly data"}

\* lastTimestamps and lastTemperatures are the entries k + 1, k + 2, ... of
\* the hourly series, for one k
SameEntries ==
    \E k \in 0 .. Len(hist.timestamps) :
        \A i \in 1 .. Len(hist.call.lastTimestamps) :
            /\ k + i <= Len(hist.timestamps)
            /\ hist.call.lastTimestamps[i] = hist.timestamps[k + i]
            /\ hist.call.lastTemperatures[i] = hist.temperatures[k + i]

\* C22 as stated: a call on an hourly series fails with 'No recent
\* temperature data available' exactly when no timestamp of the series is at
\* or after ten hours before the call; otherwise it returns timestamps and
\* temperatures of the same length, at most ten, which are the same entries
\* of the series in increasing time order, every timestamp between ten hours
\* before the call and the hour of the call.
C22_OnlyTheLastTenHours ==
    (hist.call.outcome # "none" /\ GotSeries) =>
        LET recent == \E i \in 1 .. Len(hist.timestamps) :
                          hist.timestamps[i] >= hist.clock - HistoryHours
            ts == hist.call.lastTimestamps
        IN  /\ hist.call.outcome = "returned" <=> recent
            /\ ~recent => hist.call.error = "No recent temperature data available"
            /\ recent =>
                   /\ Len(ts) = Len(hist.call.lastTemperatures)
                   /\ Len(ts) <= HistoryHours
                   /\ SameEntries
                   /\ \A i \in 1 .. (Len(ts) - 1) : ts[i] < ts[i + 1]
                   /\ \A i \in 1 .. Len(ts) :
                          ts[i] >= hist.clock - HistoryHours /\ ts[i] <= hist.clock

(***************************************************************************)
(* Claims about successive latest-temperature fetches                      *)
(***************************************************************************)
\* C23 as stated: a successful fetch that is not the first returns up, down
\* or stable according to whether its temperature is greater than, less than
\* or equal to the temperature of the preceding successful fetch, for every
\* temperature including 0 C; a failed fetch leaves the remembered previous
\* temperature as it was.
C23_TrendAgainstPrecedingFetch ==
    /\ (Returned /\ latestCall.prev # None) =>
           LET r == latestCall.result[1]
               preceding == latestCall.prev[1]
           IN  r.trend = IF r.temperature > preceding THEN "up"
                         ELSE IF r.temperature < preceding THEN "down"
                         ELSE "stable"
    /\ latestCall.outcome = "threw" => previousTemperature = latestCall.prev

(***************************************************************************)
(* Claims about WeatherDashboard                                           *)
(***************************************************************************)
\* the greatest element of a non-empty set of request numbers
Latest(S) == CHOOSE n \in S : \A m \in S : m <= n

\* C24 as stated: loading is true whenever a weather request is in flight,
\* at most one request is in flight, and weatherData stems from the most
\* recently started request among those that have delivered data.
C24_OneWeatherRequestAtATime ==
    /\ wd.pending # {} => wd.loading
    /\ Cardinality(wd.pending) <= 1
    /\ wd.succeeded # {} => wd.from = Latest(wd.succeeded)

(***************************************************************************)
(* Claims about unmounting                                                 *)
(***************************************************************************)
\* C25 as stated: once BotInsight, TemperatureStatsBox or TemperatureMap is
\* unmounted, none of its timers is pending, it starts no request and it
\* performs no state update.
C25_UnmountCancelsEverything ==
    (lc.component # "none" /\ ~lc.alive) =>
        /\ lc.timer = "none"
        /\ lc.after.requests = 0
        /\ lc.after.updates = 0

(***************************************************************************)
(* Claims about Today's Temperature Stats                                  *)
(***************************************************************************)
\* C27 as stated: once its request has settled with the weekly statistics,
\* TemperatureStatsBox shows min, avg and max of the current calendar day,
\* all three from the aggregate of that day; when the current day has no
\* readings it shows 'No data available'.
C27_StatsAreOfToday ==
    (mounted = "TemperatureStatsBox" /\ sb.inFlight = 0
        /\ sb.last \in {"data", "nodata"}) =>
        LET today == sb.asOf.today
            lg == sb.asOf.log
        IN  IF ReadingsOn(lg, today) = <<>>
            THEN sbView = "empty"
            ELSE /\ sbView = "stats"
                 /\ sb.stats[1].min = DailyAggregate(lg, today).min
                 /\ sb.stats[1].avg = DailyAggregate(lg, today).avg
                 /\ sb.stats[1].max = DailyAggregate(lg, today).max

(***************************************************************************)
(* Claims about the refreshes of AiIotDashboard                            *)
(***************************************************************************)
\* C29: error is null in every reachable state, whichever requests fail; a
\* step in which a request ends without an OK response leaves every section
\* as it was; and loading becomes false only in the step in which the last
\* of the four requests of a refresh ends.
C29_FailureNeverShowsError ==
    /\ [](ai.error = None /\ aiView # "error")
    /\ [][(ai'.pending # ai.pending /\ ai'.last \in {"not ok", "threw"}) =>
              ai'.data = ai.data]_vars
    /\ [][(ai.loading /\ ~ai'.loading) =>
              \E r \in 1 .. MaxRequests :
                  /\ PendingOf(ai.pending, r) # {}
                  /\ PendingOf(ai'.pending, r) = {}]_vars

\* the health request of the second refresh threw as the last of all: the
\* section keeps the body of the first refresh beside a section of the
\* second, and the dashboard is shown
C29_Witness ==
    /\ ai.started = 2
    /\ ai.pending = {}
    /\ ai.last = "threw"
    /\ ai.data["iotHealth"] = 1
    /\ ai.data["aiInsights"] = 2
    /\ aiView = "dashboard"

(***************************************************************************)
(* Claims about CorsTest                                                   *)
(***************************************************************************)
\* C30: at most one test request is in flight and loading is true exactly
\* while one is; the error panel and the success panel are never shown
\* together, at most one of testResult and error being non-null; and once
\* the request has settled, loading is false and one of the two is set.
C30_OneTestOneOutcome ==
    /\ Cardinality(ct.pending) <= 1
    /\ ct.loading <=> ct.pending # {}
    /\ ~(ctPanels.error /\ ctPanels.success)
    /\ ct.testResult = None \/ ct.error = None
    /\ ct.loading => (ct.testResult = None /\ ct.error = None)
    /\ (ct.started > 0 /\ ct.pending = {}) =>
           /\ ~ct.loading
           /\ Len(ct.settled) = ct.started
           /\ ctPanels.success <=> ct.settled[ct.started].outcome = "ok"
           /\ ctPanels.error <=> ct.settled[ct.started].outcome # "ok"

\* the first test succeeded and the second, started by the other button,
\* has failed: only the error panel is shown
C30_Witness ==
    /\ ct.started = 2
    /\ ct.pending = {}
    /\ ct.last = "rejected"
    /\ ctPanels = [error |-> TRUE, success |-> FALSE]
    /\ ~ct.loading

(***************************************************************************)
(* Specifications                                                          *)
(***************************************************************************)
\* the latest-temperature client alone
InitTrend ==
    /\ TrendInit
    /\ WeeklyInit
    /\ mounted = "WeeklyStats"
    /\ AnomalyInit
    /\ tpInit
    /\ HealthInit
    /\ bpInit
    /\ StoreInit
    /\ csInit
    /\ MapInit
    /\ PageInit

SpecTrend == InitTrend /\ [][TrendNext]_vars

\* one weekly statistics view over a growing reading log
InitWeekly ==
    /\ TrendInit
    /\ WeeklyInit
    /\ AnomalyInit
    /\ tpInit
    /\ HealthInit
    /\ bpInit
    /\ StoreInit
    /\ csInit
    /\ MapInit
    /\ PageInit

SpecWeekly == InitWeekly /\ [][WeeklyNext]_vars

\* anomaly detection over a growing reading log
InitAnomaly ==
    /\ TrendInit
    /\ WeeklyInit
    /\ mounted = "WeeklyStats"
    /\ AnomalyInit
    /\ tpInit
    /\ HealthInit
    /\ bpInit
    /\ StoreInit
    /\ csInit
    /\ MapInit
    /\ PageInit

SpecAnomaly == InitAnomaly /\ [][AnomalyNext]_vars

\* the prediction panel over a growing reading log
InitPredict ==
    /\ TrendInit
    /\ WeeklyInit
    /\ mounted = "WeeklyStats"
    /\ AnomalyInit
    /\ tpInit
    /\ HealthInit
    /\ bpInit
    /\ StoreInit
    /\ csInit
    /\ MapInit
    /\ PageInit

SpecPredict == InitPredict /\ [][PredictNext]_vars

\* the device health panel beside a changing device registry
InitHealth ==
    /\ TrendInit
    /\ WeeklyInit
    /\ mounted = "WeeklyStats"
    /\ AnomalyInit
    /\ tpInit
    /\ HealthInit
    /\ bpInit
    /\ StoreInit
    /\ csInit
    /\ MapInit
    /\ PageInit

SpecHealth == InitHealth /\ [][HealthNext]_vars

\* the box plot panel over a growing reading log
InitBoxplot ==
    /\ TrendInit
    /\ WeeklyInit
    /\ mounted = "WeeklyStats"
    /\ AnomalyInit
    /\ tpInit
    /\ HealthInit
    /\ bpInit
    /\ StoreInit
    /\ csInit
    /\ MapInit
    /\ PageInit

SpecBoxplot == InitBoxplot /\ [][BoxplotNext]_vars

\* appends and queries on the store, interleaved at the grain of its lock
InitStore ==
    /\ TrendInit
    /\ WeeklyInit
    /\ mounted = "WeeklyStats"
    /\ AnomalyInit
    /\ tpInit
    /\ HealthInit
    /\ bpInit
    /\ StoreInit
    /\ csInit
    /\ MapInit
    /\ PageInit

SpecStore == InitStore /\ [][StoreNext]_vars

\* ClothingSuggestion rendered with one temperature after another
InitClothing ==
    /\ TrendInit
    /\ WeeklyInit
    /\ mounted = "WeeklyStats"
    /\ AnomalyInit
    /\ tpInit
    /\ HealthInit
    /\ bpInit
    /\ StoreInit
    /\ csInit
    /\ MapInit
    /\ PageInit

SpecClothing == InitClothing /\ [][ClothingNext]_vars

\* TemperatureMap beside a backend that may recover; a timer that is set
\* fires, and a request that was sent is answered
InitMap ==
    /\ TrendInit
    /\ WeeklyInit
    /\ mounted = "WeeklyStats"
    /\ AnomalyInit
    /\ tpInit
    /\ HealthInit
    /\ bpInit
    /\ StoreInit
    /\ csInit
    /\ MapInit
    /\ PageInit

MapFairness ==
    /\ WF_vars(tmFetchLocationData)
    /\ WF_vars(tmLatestFailed)
    /\ WF_vars(\E latitude, longitude \in CoordinateValues :
                   tmLatestOk(latitude, longitude))
    /\ WF_vars(\E parts \in DisplayNames : tmLocated(NameOf(parts)))
    /\ WF_vars(tmLocated(UnknownLocation))

SpecMap == InitMap /\ [][MapNext]_vars /\ MapFairness

\* the dashboard page: refreshes of the latest temperature and their answers
InitContent ==
    /\ TrendInit
    /\ WeeklyInit
    /\ mounted = "WeeklyStats"
    /\ AnomalyInit
    /\ tpInit
    /\ HealthInit
    /\ bpInit
    /\ StoreInit
    /\ csInit
    /\ MapInit
    /\ PageInit

SpecContent == InitContent /\ [][ContentNext]_vars

\* the history client called on hourly series at various hours
InitHistory ==
    /\ TrendInit
    /\ WeeklyInit
    /\ mounted = "WeeklyStats"
    /\ AnomalyInit
    /\ tpInit
    /\ HealthInit
    /\ bpInit
    /\ StoreInit
    /\ csInit
    /\ MapInit
    /\ PageInit

SpecHistory == InitHistory /\ [][HistoryNext]_vars

\* the weather page: mount, interval ticks, clicks and answers in any order
InitWeather ==
    /\ TrendInit
    /\ WeeklyInit
    /\ mounted = "WeeklyStats"
    /\ AnomalyInit
    /\ tpInit
    /\ HealthInit
    /\ bpInit
    /\ StoreInit
    /\ csInit
    /\ MapInit
    /\ PageInit

SpecWeather == InitWeather /\ [][WeatherNext]_vars

\* a retrying component from its mount to after its unmount
InitLife ==
    /\ TrendInit
    /\ WeeklyInit
    /\ mounted = "WeeklyStats"
    /\ AnomalyInit
    /\ tpInit
    /\ HealthInit
    /\ bpInit
    /\ StoreInit
    /\ csInit
    /\ MapInit
    /\ PageInit

SpecLife == InitLife /\ [][LifeNext]_vars

\* AiIotDashboard: refreshes and the ends of their requests in any order
InitRefresh ==
    /\ TrendInit
    /\ WeeklyInit
    /\ mounted = "WeeklyStats"
    /\ AnomalyInit
    /\ tpInit
    /\ HealthInit
    /\ bpInit
    /\ StoreInit
    /\ csInit
    /\ MapInit
    /\ PageInit

SpecRefresh == InitRefresh /\ [][RefreshNext]_vars

\* the CORS test page: clicks on its two buttons and the answers
InitCors ==
    /\ TrendInit
    /\ WeeklyInit
    /\ mounted = "WeeklyStats"
    /\ AnomalyInit
    /\ tpInit
    /\ HealthInit
    /\ bpInit
    /\ StoreInit
    /\ csInit
    /\ MapInit
    /\ PageInit

SpecCors == InitCors /\ [][CorsNext]_vars

====
